---- MODULE Spec2Model ----
(***************************************************************************)
(* Collaboration server of the canvas project (crates/sync-server).        *)
(*                                                                         *)
(* Every WebSocket connection runs handle_socket: one reader task that     *)
(* takes one inbound frame at a time and runs its handler to the end.      *)
(* Handlers of different connections interleave at their await points,     *)
(* which are the acquisitions of the tokio RwLocks around the sessions     *)
(* map, each DocumentSession, the documents map and each ManagedDocument.  *)
(* One action of the model is one critical section of a handler together   *)
(* with the synchronous code that follows it up to the next await.         *)
(*                                                                         *)
(* The CRDT engine (automerge) and base64 are libraries outside the        *)
(* repository; they are modelled by what the handlers use of them.         *)
(***************************************************************************)
EXTENDS Integers, Sequences, FiniteSets, TLC

\* ------------------------------------------------------------------ bounds
\* Frames (text frames and the closing frame) the server reads in one run,
\* over all connections.
MaxFrames == 3

\* Calls of DocumentStore::get_or_create and DocumentStore::remove in one run.
MaxStoreCalls == 4
MaxOps == 4
MaxHierOps == 3
\* Characters of a z-index the callers give.
MaxZLen == 2
\* Calls made on a CanvasDocument.
MaxDocCalls == 3
\* Calls made on a scene and an entity store that are queried.
MaxQueryOps == 3
\* Calls made on a camera through the engine.
MaxCameraOps == 3
\* Events handled and tools set on a ToolManager.
MaxToolOps == 4
\* Shapes followed one by one through build_geometry's loop, and the
\* greatest number of rectangles a frame holds before them.
MaxShapes == 2
MaxRectangles == 16384
\* Handlers and stats requests started in the part that follows the locks.
MaxHandlers == 3

\* ------------------------------------------------------- the input alphabet
Conns == {"k1", "k2"}          \* open sockets; the session token of a connection is its name
Docs == {"d1", "d2"}           \* document ids clients name
ClientIds == {"a", "b"}        \* client ids clients name
Changes == {"x1", "x2", "x3"}  \* CRDT changes; x3 was made on top of x1 and x2

Callers == {"t1", "t2", "t3"}  \* tasks that call the DocumentStore
\* No replica under a document id (HashMap::get gives None).
NoReplica == 0
\* A caller that has not called get_or_create yet.
NoCall == [document_id |-> "", replica |-> NoReplica, removes |-> 0]

\* A session handle of 0 is "no session" (Option::None).
NoSession == 0
\* Session objects alive at once: one per document in the map, one more per
\* handler that still holds the Arc of a session taken out of the map.
SessIds == 1..(Cardinality(Docs) + Cardinality(Conns))

VARIABLES
    sessions,     \* SessionManager.sessions: document id -> session handle
    sess,         \* the DocumentSession objects: handle -> free, or its document id and clients
    documents,    \* DocumentStore.documents: document id -> ManagedDocument
    chan,         \* per connection, every message placed on its outbound mpsc channel, in order
    pc,           \* per connection, where its reader task stands
    cur,          \* per connection, the frame it is handling (or handled last)
    session,      \* per connection, the Arc<RwLock<DocumentSession>> the handler holds
    saved,        \* per connection, handle_join_document's (doc_bytes, version)
    client_info,  \* per connection, handle_join_document's client_info
    client_id,    \* per connection, handle_socket's client_id (set by join frames)
    todo,         \* per connection, handle_disconnect's list of sessions still to leave
    nframes       \* frames read so far

\* The two ends of each socket, which the handlers never look at.
VARIABLES
    inbox,        \* per connection, the frames that arrived on its socket and are not yet read
    wire,         \* per connection, the messages its send task has written to the socket
    send_task     \* per connection, the state of its send task

wireVars == <<inbox, wire, send_task>>

\* The DocumentStore as its callers see it: which replica (which
\* Arc<RwLock<ManagedDocument>>) the map holds for a document id.
VARIABLES
    store,        \* DocumentStore.documents, by reference: document id -> replica, or NoReplica
    minted,       \* replicas created so far (the replicas are 1..minted)
    made,         \* per document id, the replicas created for it since the last remove(id)
    removes,      \* per document id, the remove(id) calls so far
    got,          \* per caller, what its last get_or_create returned, and after how many removes
    calls         \* calls made so far

storeVars == <<store, minted, made, removes, got, calls>>

\* The far end of a connection: a client that runs the sync protocol of the
\* CRDT engine against the server.
VARIABLES
    cdoc,         \* the client's replica
    cstate,       \* the client's sync state for the server
    awaiting,     \* "sent": the client has sent a sync_request and not yet read
                  \* the answer; "overtaken": and a change has arrived since
    synced        \* the last answer the client read: "none", "more", "complete",
                  \* or "stale" for the answer to an overtaken request

clientVars == <<cdoc, cstate, awaiting, synced>>

\* canvas-core: the SceneGraph, and the calls made on it.
VARIABLES
    nodes,        \* SceneGraph.nodes: an Option<SceneNode> for every id
    roots,        \* SceneGraph.roots
    slots,        \* the order in which the HashMap `nodes` yields its keys
    inserted,     \* the ids in the order they were first inserted
    scene_call,   \* the last call made on the SceneGraph
    scene_calls   \* the number of calls made

sceneVars == <<nodes, roots, slots, inserted, scene_call, scene_calls>>

\* canvas-core: the entity store (a bevy_ecs World) with its hierarchy, and
\* the calls made on it.
VARIABLES
    world,        \* the components of every entity, none for an entity not spawned
    hier_call,    \* the last call made
    hier_calls    \* the number of calls made since the entities were spawned

hierVars == <<world, hier_call, hier_calls>>

\* canvas-schema: a call of the fractional z-index generator.
VARIABLES
    z_before,     \* Option<&str>: the index to go after
    z_after,      \* Option<&str>: the index to go before
    z_index       \* the index returned, none before the call

zVars == <<z_before, z_after, z_index>>

\* canvas-schema: a CanvasDocument, and the number of calls made on it.
VARIABLES
    canvas,       \* pages, objects, page_objects and metadata.version
    canvas_calls

docVars == <<canvas, canvas_calls>>

\* canvas-core: the answers of the last render-order and hit-test queries.
VARIABLES
    render_order, \* what get_render_order returned, none once the scene changed
    hit,          \* what hit_test returned and where it was asked, none once
                  \* the scene or the store changed
    query_calls   \* the number of calls made on the scene and the store queried

queryVars == <<render_order, hit, query_calls>>

\* canvas-core: the camera of a CanvasEngine, the options the engine was
\* made with, and the calls made on the camera.
VARIABLES
    camera,       \* Camera: x, y, zoom and the viewport
    options,      \* EngineOptions: min_zoom and max_zoom
    needs_render, \* CanvasEngine.needs_render
    camera_call,  \* the last call made
    camera_calls  \* the number of calls made

cameraVars == <<camera, options, needs_render, camera_call, camera_calls>>

\* canvas-core: the ToolManager and the selection of a CanvasEngine, and the
\* calls made on the ToolManager.
VARIABLES
    tool_manager, \* ToolManager: current_tool and state
    selection,    \* SelectionState.selected_ids
    events,       \* the events handled since the tool was last set
    tool_call,    \* the last call made, with what it returned
    tool_calls    \* the number of calls made

toolVars == <<tool_manager, selection, events, tool_call, tool_calls>>

\* The locks of the server and the tasks that take them: the reader task
\* of every connection and the task of a GET /stats request.
VARIABLES
    locks,         \* every tokio RwLock: who holds it, and the queue of those waiting
    task_pc,       \* per task, the critical section it is in or waits to enter
    task_waits,    \* per task, whether it is suspended in read().await or write().await
    task_frame,    \* per connection, the kind of frame its reader is handling
    task_session,  \* per connection, the Arc<RwLock<DocumentSession>> the handler holds
    task_todo,     \* per task, the sessions its loop has still to visit
    mgr_sessions,  \* SessionManager.sessions, as the tasks of this part see it
    mgr_heap,      \* the DocumentSession objects
    mgr_documents, \* DocumentStore.documents
    handlers       \* handlers and requests started so far

lockVars == <<locks, task_pc, task_waits, task_frame, task_session, task_todo,
              mgr_sessions, mgr_heap, mgr_documents, handlers>>

\* canvas-core: the Renderer's geometry, and the shape columns of the World.
VARIABLES
    shape_type,   \* per entity, its ShapeType and shape component: an Option
    geometry,     \* build_geometry's vertices (their number), the shapes it
                  \* has written indices for, and objects_rendered
    listed,       \* what ecs::systems::get_render_order returned last
    render_pc,    \* "idle", "built" after a frame, "loop" inside build_geometry's
                  \* loop, "panicked" after an arithmetic overflow panic
    emitted       \* shapes written one by one inside the loop so far

renderVars == <<shape_type, geometry, listed, render_pc, emitted>>

\* The state of the canvas crates.
canvasVars == <<sceneVars, hierVars, zVars, docVars, queryVars, cameraVars, toolVars, renderVars>>

\* What the handlers of the server leave alone, and what each of the
\* other parts leaves alone.
aside == <<wireVars, storeVars, clientVars, lockVars, canvasVars>>
asideWire == <<storeVars, clientVars, lockVars, canvasVars>>
asideStore == <<wireVars, clientVars, lockVars, canvasVars>>
asideClient == <<wireVars, storeVars, lockVars, canvasVars>>

vars == <<sessions, sess, documents, chan, pc, cur, session, saved, client_info,
          client_id, todo, nframes, aside>>

\* ---------------------------------------------------------------- base64
\* A wire payload is either text that is no base64 at all, or the base64
\* encoding of some bytes.
B64Encode(bytes) == [b64 |-> TRUE, body |-> bytes]
NotBase64 == [b64 |-> FALSE, body |-> [kind |-> "text"]]
B64Ok(payload) == payload.b64
B64Decode(payload) == payload.body

\* ------------------------------------------------------------ CRDT engine
\* Bytes that are no CRDT data.
Junk == [kind |-> "junk"]
\* The changes a change depends on.
Deps(x) == IF x = "x3" THEN {"x1", "x2"} ELSE {}
\* An encoded change.
ChangeBytes(x) == [kind |-> "change", id |-> x]
\* An encoded sync message: the sender's heads and the changes it ships.
\* corrupt: it parses, but the changes in it cannot be applied.
SyncBytes(h, c, bad) == [kind |-> "sync", heads |-> h, changes |-> c, corrupt |-> bad]
\* A saved document.
DocBytes(cs) == [kind |-> "doc", changes |-> cs]

\* Heads of a set of applied changes: those no other applied change depends on.
HeadsOf(cs) == {x \in cs : \A y \in cs : x \notin Deps(y)}

\* Applying changes: a change whose dependencies are missing waits in the
\* queue until they arrive.
RECURSIVE Drain(_, _)
Drain(applied, queue) ==
    LET ready == {x \in queue : Deps(x) \subseteq applied}
    IN  IF ready = {} THEN [applied |-> applied, queue |-> queue]
        ELSE Drain(applied \cup ready, queue \ ready)
ApplyChanges(doc, cs) ==
    LET r == Drain(doc.applied, (doc.queue \cup cs) \ doc.applied)
    IN  [doc EXCEPT !.applied = r.applied, !.queue = r.queue]

\* Everything a peer with heads h has.
RECURSIVE Closure(_)
Closure(h) ==
    LET more == h \cup UNION {Deps(x) : x \in h}
    IN  IF more = h THEN h ELSE Closure(more)

\* automerge::sync::State::new()
NewSyncState ==
    [their_heads |-> {}, last_sent_heads |-> {}, sent_hashes |-> {}, in_flight |-> FALSE]

\* SyncDoc::receive_sync_message on a state `st`; an Option is a set with at
\* most one element. The result is the new document, the new state and
\* whether the engine accepted the message.
EngineReceive(doc, st, m) ==
    IF m.corrupt THEN [ok |-> FALSE, doc |-> doc, st |-> st]
    ELSE
      LET before_heads == HeadsOf(doc.applied)
          doc1 == ApplyChanges(doc, m.changes)
          sent1 == st.sent_hashes \ Closure(m.heads)
          known == m.heads \subseteq doc1.applied
          st1 == [their_heads |-> {m.heads},
                  last_sent_heads |->
                      IF known /\ m.heads = {} THEN {}
                      ELSE IF m.changes = {} /\ m.heads = before_heads THEN m.heads
                      ELSE st.last_sent_heads,
                  sent_hashes |-> IF known /\ m.heads = {} THEN {} ELSE sent1,
                  in_flight |-> IF known \/ sent1 = {} THEN FALSE ELSE st.in_flight]
      IN  [ok |-> TRUE, doc |-> doc1, st |-> st1]

\* SyncDoc::generate_sync_message on a state `st`: the new state and the
\* optional message.
EngineGenerate(doc, st) ==
    LET our_heads == HeadsOf(doc.applied)
        changes_to_send ==
            IF st.their_heads = {} THEN {}
            ELSE doc.applied \ Closure(CHOOSE h \in st.their_heads : TRUE)
        heads_unchanged == st.last_sent_heads = our_heads
        heads_equal == st.their_heads = {our_heads}
        fresh == changes_to_send \ st.sent_hashes
    IN  IF heads_unchanged /\ ((heads_equal /\ changes_to_send = {}) \/ st.in_flight)
        THEN [st |-> st, msg |-> {}]
        ELSE [st |-> [st EXCEPT !.last_sent_heads = our_heads,
                                !.sent_hashes = @ \cup fresh,
                                !.in_flight = TRUE],
              msg |-> {SyncBytes(our_heads, fresh, FALSE)}]

\* automerge::sync::Message::decode
SyncDecodeOk(bytes) == bytes.kind = "sync"

\* AutoCommit::load_incremental accepts encoded changes only.
LoadOk(bytes) == bytes.kind = "change"

\* -------------------------------------------------------- ManagedDocument
\* An Option or a HashMap entry is a set with at most one element.
The(opt) == CHOOSE v \in opt : TRUE

\* ManagedDocument::new
NewManagedDocument ==
    [applied |-> {}, queue |-> {}, sync_states |-> [t \in Conns |-> {}]]

\* ManagedDocument::to_bytes
to_bytes(doc) == DocBytes(doc.applied)

\* ManagedDocument::get_heads
get_heads(doc) == HeadsOf(doc.applied)

\* ManagedDocument::apply_change, on bytes load_incremental accepts
apply_change(doc, bytes) == ApplyChanges(doc, {bytes.id})

\* sync_states.entry(session_key).or_insert_with(sync::State::new)
EnsureSyncState(doc, token) ==
    IF doc.sync_states[token] # {} THEN doc
    ELSE [doc EXCEPT !.sync_states[token] = {NewSyncState}]

\* The method as a slip would have it: the engine works on a copy of the
\* sync state, and the state of the session key stays as it was.
receive_sync_message_on_copy(doc, token, m) ==
    LET d0 == EnsureSyncState(doc, token)
        r == EngineReceive(d0, The(d0.sync_states[token]), m)
    IN  [ok |-> r.ok, doc |-> r.doc]

\* ManagedDocument::receive_sync_message: [ok, doc]
receive_sync_message(doc, token, m) ==
    LET d0 == EnsureSyncState(doc, token)
        r == EngineReceive(d0, The(d0.sync_states[token]), m)
    IN  [ok |-> r.ok,
         doc |-> [r.doc EXCEPT !.sync_states[token] = {r.st}]]

\* ManagedDocument::generate_sync_message: [doc, msg]
generate_sync_message(doc, token) ==
    LET d0 == EnsureSyncState(doc, token)
        r == EngineGenerate(d0, The(d0.sync_states[token]))
    IN  [doc |-> [d0 EXCEPT !.sync_states[token] = {r.st}], msg |-> r.msg]

\* remove_sync_state as a slip would have it: the entry stays.
remove_sync_state_kept(doc, token) == doc

\* ManagedDocument::remove_sync_state
remove_sync_state(doc, token) == [doc EXCEPT !.sync_states[token] = {}]

\* ---------------------------------------------------------- DocumentStore
\* DocumentStore::get_or_create: the documents map afterwards
get_or_create(docs, d) ==
    IF docs[d] # {} THEN docs ELSE [docs EXCEPT ![d] = {NewManagedDocument}]

\* ------------------------------------------------------------ display name
\* handle_join_document names a client "User-" and the first bytes of its
\* id: &client_id[..8.min(client_id.len())]. A str slice panics when its end
\* is not on a character boundary. A client id is seen here as the byte
\* widths of its UTF-8 characters.
NamePrefix == 8
\* A client id of seven one-byte characters and a two-byte one.
RaggedId == "ragged"
Utf8(c) == IF c = RaggedId THEN <<1, 1, 1, 1, 1, 1, 1, 2>> ELSE <<1>>
RECURSIVE ByteLen(_)
ByteLen(w) == IF w = << >> THEN 0 ELSE Head(w) + ByteLen(Tail(w))
\* str::is_char_boundary
is_char_boundary(w, n) == \E i \in 0..Len(w) : ByteLen(SubSeq(w, 1, i)) = n
PrefixPanics(c) ==
    LET w == Utf8(c)
        end == IF NamePrefix < ByteLen(w) THEN NamePrefix ELSE ByteLen(w)
    IN  ~is_char_boundary(w, end)

\* ---------------------------------------------------------------- Session
\* ClientConnection::new (display_name and color are functions of the
\* client id alone and are left out).
NewClientConnection(c, sender, token) ==
    [client_id |-> c, status |-> "active", cursor_position |-> {}, selection |-> {},
     sender |-> sender, session_token |-> token]

\* ClientConnection::to_client_info
to_client_info(conn) ==
    [client_id |-> conn.client_id, status |-> conn.status,
     cursor_position |-> conn.cursor_position, selection |-> conn.selection]

\* A session slot nobody refers to.
FreeSession == [live |-> FALSE, document_id |-> "", clients |-> [c \in ClientIds |-> {}]]

\* DocumentSession::new
NewDocumentSession(d) ==
    [live |-> TRUE, document_id |-> d, clients |-> [c \in ClientIds |-> {}]]

\* DocumentSession::add_client
add_client(s, conn) == [s EXCEPT !.clients[conn.client_id] = {conn}]

\* DocumentSession::remove_client: the session afterwards (the removed
\* entry is s.clients[c])
remove_client(s, c) == [s EXCEPT !.clients[c] = {}]

\* DocumentSession::get_client
get_client(s, c) == s.clients[c]

\* DocumentSession::get_client_mut and the assignment the handler of a
\* cursor_move, selection_update or presence_update frame makes through it:
\* the session afterwards.
update_client_kept(s, c, kind, v) == s
update_client(s, c, kind, v) ==
    IF s.clients[c] = {} THEN s
    ELSE LET client == The(s.clients[c])
         IN  [s EXCEPT !.clients[c] =
                 {CASE kind = "cursor_move" -> [client EXCEPT !.cursor_position = {v}]
                    [] kind = "selection_update" -> [client EXCEPT !.selection = {v}]
                    [] kind = "presence_update" -> [client EXCEPT !.status = v]}]

\* DocumentSession::get_clients (a Vec in the map's iteration order: a set)
get_clients(s) == {to_client_info(The(s.clients[c])) : c \in {x \in ClientIds : s.clients[x] # {}}}

\* DocumentSession::client_count
client_count(s) == Cardinality({c \in ClientIds : s.clients[c] # {}})

\* DocumentSession::is_empty
is_empty(s) == \A c \in ClientIds : s.clients[c] = {}

\* DocumentSession::broadcast: the outbound channels afterwards.
\* broadcast_tx.send hands the message to the Receivers of the tokio
\* broadcast channel. The only Receiver ever made is the one
\* DocumentSession::new drops at once, and subscribe() has no caller, so
\* send returns Err, which `let _ =` discards: no ClientConnection.sender
\* is used and no outbound channel changes.
broadcast(ch, s, message, exclude_client) == ch

\* --------------------------------------------------------- SessionManager
\* The smallest free session slot.
NewSessionId(heap) == CHOOSE i \in SessIds : ~heap[i].live /\ \A j \in SessIds : j < i => heap[j].live

\* Dropping the last Arc of a session frees it: a session that is neither in
\* the map nor held by a handler is gone.
Collect(heap, map, held) ==
    [i \in SessIds |->
        IF (\E d \in Docs : map[d] = i) \/ (\E k \in Conns : held[k] = i)
        THEN heap[i] ELSE FreeSession]

\* SessionManager::active_sessions
active_sessions == {d \in Docs : sessions[d] # NoSession}

\* SessionManager::total_clients
RECURSIVE SumClients(_)
SumClients(ds) ==
    IF ds = {} THEN 0
    ELSE LET d == CHOOSE x \in ds : TRUE
         IN  client_count(sess[sessions[d]]) + SumClients(ds \ {d})
total_clients == SumClients(active_sessions)

\* ----------------------------------------------------------------- frames
Frame(t, d, c, p) == [type |-> t, document_id |-> d, client_id |-> c, payload |-> p]
\* The payload field of a frame that carries none.
NoPayload == [b64 |-> FALSE, body |-> [kind |-> "none"]]
NoFrame == Frame("none", "", "", NoPayload)

\* Payloads of change frames: no base64, base64 of bytes that are no change,
\* and an encoded change.
ChangePayloads == {NotBase64, B64Encode(Junk), B64Encode(ChangeBytes("x1"))}
\* Payloads of sync_request frames: no base64, base64 of bytes that are no
\* sync message, a sync message the replica rejects, and two it accepts.
SyncPayloads ==
    {NotBase64, B64Encode(Junk), B64Encode(SyncBytes({}, {"x1"}, TRUE)),
     B64Encode(SyncBytes({}, {}, FALSE)),
     B64Encode(SyncBytes({"x1"}, {"x1"}, FALSE))}

\* The value a cursor_move, selection_update or presence_update frame carries.
Plain(v) == [b64 |-> FALSE, body |-> [kind |-> "value", value |-> v]]
Positions == {"p1", "p2"}              \* cursor positions
Selections == {"s1"}                   \* selections
Statuses == {"active", "idle", "away"} \* PresenceStatus
UpdateFrames ==
    {Frame("cursor_move", d, c, Plain(v)) : d \in Docs, c \in ClientIds, v \in Positions}
    \cup {Frame("selection_update", d, c, Plain(v)) : d \in Docs, c \in ClientIds, v \in Selections}
    \cup {Frame("presence_update", d, c, Plain(v)) :
              d \in Docs, c \in ClientIds, v \in Statuses \ {"active"}}

JoinFrames == {Frame("join_document", d, c, NoPayload) : d \in Docs, c \in ClientIds}
LeaveFrames == {Frame("leave_document", d, c, NoPayload) : d \in Docs, c \in ClientIds}
ChangeFrames == {Frame("change", d, c, p) : d \in Docs, c \in ClientIds, p \in ChangePayloads}
SyncFrames == {Frame("sync_request", d, c, p) : d \in Docs, c \in ClientIds, p \in SyncPayloads}

\* --------------------------------------------------------- ServerMessage
JoinAck(d, c, state, version, clients) ==
    [type |-> "join_ack", document_id |-> d, client_id |-> c, document_state |-> state,
     version |-> version, connected_clients |-> clients]
ClientJoined(d, info) == [type |-> "client_joined", document_id |-> d, client_info |-> info]
ClientLeft(d, c) == [type |-> "client_left", document_id |-> d, client_id |-> c]
ChangeBroadcastMsg(d, c, change, version) ==
    [type |-> "change_broadcast", document_id |-> d, source_client_id |-> c,
     change |-> change, version |-> version]
\* CursorBroadcast, SelectionBroadcast or PresenceBroadcast, after the frame.
UpdateBroadcastMsg(f) ==
    [type |-> CASE f.type = "cursor_move" -> "cursor_broadcast"
                [] f.type = "selection_update" -> "selection_broadcast"
                [] f.type = "presence_update" -> "presence_broadcast",
     document_id |-> f.document_id, client_id |-> f.client_id, value |-> f.payload.body.value]
ErrorMsg(code, d) == [type |-> "error", code |-> code, document_id |-> {d}]
\* The mapping as a slip would have it: is_complete never set.
SyncResponseNeverComplete(d, response_msg) ==
    [type |-> "sync_response", document_id |-> d,
     sync_message |-> {B64Encode(m) : m \in response_msg},
     is_complete |-> FALSE]

\* handle_sync_request's mapping of generate_sync_message's result
SyncResponse(d, response_msg) ==
    [type |-> "sync_response", document_id |-> d,
     sync_message |-> {B64Encode(m) : m \in response_msg},
     is_complete |-> (response_msg = {})]

\* mpsc::UnboundedSender::send on the connection's own channel
Send(ch, k, message) == [ch EXCEPT ![k] = Append(@, message)]

\* ================================================================ canvas
\* ---------------------------------------------------------------- Transform
\* canvas_schema::Transform, on the x axis: a is the scale (a flip when
\* negative) and tx the translation; b = c = 0, d = 1 and ty = 0 are left
\* out, and the numbers are integers.
Transform(a, tx) == [a |-> a, tx |-> tx]
IDENTITY == Transform(1, 0)
\* Transform::multiply: `other` is applied first.
multiply(self, other) ==
    Transform(self.a * other.a, self.a * other.tx + self.tx)
\* The local transforms the callers give, and the transform of the objects
\* that are spawned.
Locals == {Transform(1, 1), Transform(-1, 0)}
BaseTransform == Transform(1, 1)

\* BoundingBox, along the one axis kept: x and width.
BoundingBox(x, width) == [x |-> x, width |-> width]
\* BoundingBox::default()
BoundingBoxDefault == BoundingBox(0, 0)
\* BoundingBox::contains: both ends belong to the box.
bounds_contains(box, point) == point >= box.x /\ point <= box.x + box.width

\* --------------------------------------------------------------- SceneGraph
ObjectIds == {"o1", "o2", "o3"}
\* SceneNode::new; the bounds, the z-index and the visibility play no part
\* in the transforms.
NewSceneNode(id) ==
    [id |-> id, parent |-> {}, children |-> << >>,
     local_transform |-> IDENTITY, world_transform |-> IDENTITY,
     local_bounds |-> BoundingBoxDefault, world_bounds |-> BoundingBoxDefault,
     z_index |-> <<90, 122>>, visible |-> TRUE, dirty |-> TRUE]

\* SceneGraph::new
NewSceneGraph == [nodes |-> [id \in ObjectIds |-> {}], roots |-> << >>]

\* SceneGraph::add_node: the parent's child list or the root list gets the
\* id, then the node is inserted under its id (replacing a node that is
\* there).
add_node(g, id, parent) ==
    LET node == [NewSceneNode(id) EXCEPT !.parent = parent]
        linked ==
            IF parent # {}
            THEN IF g.nodes[The(parent)] # {}
                 THEN [g EXCEPT !.nodes[The(parent)] =
                           {[The(@) EXCEPT !.children = Append(@, id)]}]
                 ELSE g
            ELSE [g EXCEPT !.roots = Append(@, id)]
    IN  [linked EXCEPT !.nodes[id] = {node}]

\* SceneGraph::remove_node, and its loop over the children of the node
\* removed (over children[i..]).
RECURSIVE remove_node(_, _)
RECURSIVE remove_children(_, _, _)
remove_node(g, id) ==
    IF g.nodes[id] = {} THEN g
    ELSE LET node == The(g.nodes[id])
             removed == [g EXCEPT !.nodes[id] = {}]
             unlinked ==
                 IF node.parent # {}
                 THEN IF removed.nodes[The(node.parent)] # {}
                      THEN [removed EXCEPT !.nodes[The(node.parent)] =
                                {[The(@) EXCEPT !.children =
                                     SelectSeq(@, LAMBDA child : child # id)]}]
                      ELSE removed
                 ELSE [removed EXCEPT !.roots = SelectSeq(@, LAMBDA root : root # id)]
         IN  remove_children(unlinked, node.children, 1)
remove_children(g, children, i) ==
    IF i > Len(children) THEN g
    ELSE remove_children(remove_node(g, children[i]), children, i + 1)

\* SceneGraph::update_node_transform, and the loop over the children it
\* ends with (over children[i..]).
RECURSIVE update_node_transform(_, _, _)
RECURSIVE update_children(_, _, _, _)
update_node_transform(ns, id, parent_transform) ==
    IF ns[id] = {} THEN ns
    ELSE LET node == The(ns[id])
             world_transform == multiply(parent_transform, node.local_transform)
             ns1 == [ns EXCEPT ![id] = {[node EXCEPT
                        !.world_transform = world_transform,
                        !.dirty = FALSE,
                        !.world_bounds =
                            BoundingBox(node.local_bounds.x + world_transform.tx,
                                        node.local_bounds.width)]}]
         IN  update_children(ns1, node.children, 1, world_transform)
update_children(ns, children, i, world_transform) ==
    IF i > Len(children) THEN ns
    ELSE update_children(update_node_transform(ns, children[i], world_transform),
                         children, i + 1, world_transform)

\* SceneGraph::update_transforms
update_transforms(g) ==
    [g EXCEPT !.nodes = update_children(g.nodes, g.roots, 1, IDENTITY)]

\* No call made yet.
NoSceneCall == [op |-> "none", id |-> "", parent |-> {}]

InitScene ==
    /\ nodes = NewSceneGraph.nodes
    /\ roots = NewSceneGraph.roots
    /\ slots = << >>
    /\ inserted = << >>
    /\ scene_call = NoSceneCall
    /\ scene_calls = 0

\* ------------------------------------------------------- ecs::hierarchy
Entities == {"e1", "e2", "e3"}
\* Entity handles in the order World::spawn gives them.
EntityOrder == <<"e1", "e2", "e3">>

\* BaseObjectProperties::new, with the transform the object is given.
BaseObjectProperties(id, t) ==
    [id |-> id, transform |-> t, z_index |-> <<90, 122>>, visible |-> TRUE,
     locked |-> FALSE]
\* The object every entity is spawned for.
ObjectOf == [e \in Entities |-> CASE e = "e1" -> "o1" [] e = "e2" -> "o2" [] OTHER -> "o3"]

\* spawn_object: the components the hierarchy works on. An Option is a set
\* with at most one element; `renderable` is the Renderable marker, which
\* spawn_object does not insert and the caller may.
Spawned(base, renderable) ==
    [id |-> base.id,
     renderable |-> renderable, parent |-> {}, children |-> {}, dirty |-> FALSE,
     transform |-> [local |-> base.transform, world |-> base.transform],
     z_index |-> base.z_index,
     visibility |-> [visible |-> base.visible, locked |-> base.locked],
     world_bounds |-> {}]

\* Vec::retain(|&c| c != child)
retain(children, child) == SelectSeq(children, LAMBDA c : c # child)
\* Vec::contains
contains(children, child) == \E i \in 1..Len(children) : children[i] = child

\* set_parent, with a slip: the ParentComponent names the child itself.
set_parent_self(w, child, parent) ==
    [w EXCEPT ![child] = {[The(@) EXCEPT !.parent = {child}, !.dirty = TRUE]}]

\* set_parent
set_parent(w, child, parent) ==
    LET w1 == IF w[child] # {} /\ The(w[child]).parent # {}
              THEN LET old_parent == The(The(w[child]).parent)
                   IN  IF w[old_parent] # {} /\ The(w[old_parent]).children # {}
                       THEN [w EXCEPT ![old_parent] =
                                {[The(@) EXCEPT !.children = {retain(The(@), child)}]}]
                       ELSE w
              ELSE w
        w2 == IF w1[child] # {}
              THEN [w1 EXCEPT ![child] = {[The(@) EXCEPT !.parent = {parent},
                                                         !.dirty = TRUE]}]
              ELSE w1
    IN  IF w2[parent] = {} THEN w2
        ELSE IF The(w2[parent]).children # {}
             THEN IF contains(The(The(w2[parent]).children), child) THEN w2
                  ELSE [w2 EXCEPT ![parent] =
                           {[The(@) EXCEPT !.children = {Append(The(@), child)}]}]
             ELSE [w2 EXCEPT ![parent] = {[The(@) EXCEPT !.children = {<<child>>}]}]

\* remove_parent
remove_parent(w, child) ==
    LET old_parent == IF w[child] # {} THEN The(w[child]).parent ELSE {}
        w1 == IF old_parent # {} /\ w[The(old_parent)] # {}
                 /\ The(w[The(old_parent)]).children # {}
              THEN [w EXCEPT ![The(old_parent)] =
                       {[The(@) EXCEPT !.children = {retain(The(@), child)}]}]
              ELSE w
    IN  IF w1[child] = {} THEN w1
        ELSE [w1 EXCEPT ![child] = {[The(@) EXCEPT !.parent = {}, !.dirty = TRUE]}]

\* get_roots: the query gives the entities in no order the code relies on
\* (the subtrees of two roots share no entity).
get_roots(w) ==
    SelectSeq(EntityOrder,
              LAMBDA e : w[e] # {} /\ The(w[e]).renderable /\ The(w[e]).parent = {})

\* get_children
get_children(w, parent) ==
    IF w[parent] # {} /\ The(w[parent]).children # {}
    THEN The(The(w[parent]).children) ELSE << >>

\* get_parent
get_parent(w, child) == IF w[child] # {} THEN The(w[child]).parent ELSE {}

\* get_ancestors: the loop ends when an entity without parent is reached.
RECURSIVE get_ancestors(_, _)
get_ancestors(w, entity) ==
    IF get_parent(w, entity) = {} THEN << >>
    ELSE <<The(get_parent(w, entity))>> \o get_ancestors(w, The(get_parent(w, entity)))

\* The entities the child lists lead to from the entities of `es`.
RECURSIVE Below(_, _)
Below(w, es) ==
    LET more == es \cup UNION {{get_children(w, e)[i] : i \in 1..Len(get_children(w, e))}
                               : e \in es}
    IN  IF more = es THEN es ELSE Below(w, more)
ChildSet(w, e) == {get_children(w, e)[i] : i \in 1..Len(get_children(w, e))}
\* get_descendants: the stack loop, which ends when no child list leads back
\* to an entity it has been through (Returns says so).
DescendantsReturn(w, entity) ==
    \A e \in Below(w, ChildSet(w, entity)) : e \notin Below(w, ChildSet(w, e))
RECURSIVE get_descendants_loop(_, _, _)
get_descendants_loop(w, descendants, stack) ==
    IF stack = << >> THEN descendants
    ELSE LET child == stack[Len(stack)]
         IN  get_descendants_loop(w, Append(descendants, child),
                                  SubSeq(stack, 1, Len(stack) - 1) \o get_children(w, child))
get_descendants(w, entity) == get_descendants_loop(w, << >>, get_children(w, entity))

\* propagate_transform_recursive, and the loop over the children it ends
\* with (over children[i..]).
RECURSIVE propagate_transform_recursive(_, _, _)
RECURSIVE propagate_children(_, _, _, _)
propagate_transform_recursive(w, entity, parent_world_transform) ==
    IF w[entity] = {} THEN w
    ELSE LET local_transform == The(w[entity]).transform.local
             world_transform == multiply(parent_world_transform, local_transform)
             children == get_children(w, entity)
             w1 == [w EXCEPT ![entity] = {[The(@) EXCEPT !.transform.world = world_transform,
                                                         !.dirty = FALSE]}]
         IN  propagate_children(w1, children, 1, world_transform)
propagate_children(w, children, i, world_transform) ==
    IF i > Len(children) THEN w
    ELSE propagate_children(propagate_transform_recursive(w, children[i], world_transform),
                            children, i + 1, world_transform)

\* propagate_transforms
propagate_transforms(w) == propagate_children(w, get_roots(w), 1, IDENTITY)

\* mark_transform_dirty
mark_transform_dirty(w, entity) ==
    LET descendants == get_descendants(w, entity)
        marked == {entity} \cup {descendants[i] : i \in 1..Len(descendants)}
    IN  [e \in Entities |->
            IF e \in marked /\ w[e] # {} THEN {[The(w[e]) EXCEPT !.dirty = TRUE]} ELSE w[e]]

\* Transform::inverse
inverse(t) == Transform(t.a, 0 - t.a * t.tx)

\* reparent_preserve_world
reparent_preserve_world(w, child, new_parent) ==
    IF w[child] = {} THEN w
    ELSE LET world_transform == The(w[child]).transform.world
             parent_world == IF new_parent # {} /\ w[The(new_parent)] # {}
                             THEN The(w[The(new_parent)]).transform.world
                             ELSE IDENTITY
             new_local == multiply(inverse(parent_world), world_transform)
             w1 == IF new_parent # {} THEN set_parent(w, child, The(new_parent))
                   ELSE remove_parent(w, child)
             w2 == [w1 EXCEPT ![child] = {[The(@) EXCEPT !.transform.local = new_local]}]
         IN  propagate_transforms(w2)

\* No call made yet.
NoHierCall == [op |-> "none", child |-> "", parent |-> {}]

\* World::new
InitHier ==
    /\ world = [e \in Entities |-> {}]
    /\ hier_call = NoHierCall
    /\ hier_calls = 0

\* ------------------------------------------------ fractional z-indices
\* A string is the sequence of its bytes (the alphabet is ASCII); str's Ord
\* compares byte by byte, a proper prefix being the smaller.
StrLess(s, t) ==
    \E i \in 1..(Len(t)) :
        /\ \A j \in 1..(i - 1) : j <= Len(s) /\ s[j] = t[j]
        /\ i > Len(s) \/ s[i] < t[i]
\* CHARS: the digits, the uppercase and the lowercase letters.
CHARS == [i \in 1..62 |-> IF i <= 10 THEN 47 + i ELSE IF i <= 36 THEN 54 + i ELSE 60 + i]
\* index_char
index_char(i) == CHARS[(IF i < Len(CHARS) - 1 THEN i ELSE Len(CHARS) - 1) + 1]

\* utils::generate_z_index_between
generate_z_index_between(before, after) ==
    IF before = {} /\ after = {} THEN <<90, 122>>
    ELSE IF before = {} THEN <<48>> \o The(after)
    ELSE IF after = {} THEN Append(The(before), 122)
    ELSE LET mid_char == index_char(Len(CHARS) \div 2)
         IN  Append(The(before), mid_char)

\* utils::generate_z_index_after, utils::generate_z_index_before
generate_z_index_after(current) == generate_z_index_between(current, {})
generate_z_index_before(current) == generate_z_index_between({}, current)

\* contracts/document-schema.rs generate_z_index_between; the arithmetic on
\* the last character is u8 arithmetic.
contract_generate_z_index_between(before, after) ==
    IF before = {} /\ after = {} THEN <<97, 48>>
    ELSE IF before = {}
    THEN LET chars == The(after)
         IN  IF chars = << >> THEN chars
             ELSE IF chars[Len(chars)] > 65
                  THEN [chars EXCEPT ![Len(chars)] = @ - 1]
                  ELSE Append(chars, 86)
    ELSE IF after = {}
    THEN LET chars == The(before)
         IN  IF chars = << >> THEN chars
             ELSE IF chars[Len(chars)] < 122
                  THEN [chars EXCEPT ![Len(chars)] = @ + 1]
                  ELSE Append(chars, 48)
    ELSE Append(The(before), 86)

\* The characters the callers' indices are made of ('0', '1', 'A', 'V',
\* 'a', 'z'), and the indices.
ZChars == {48, 49, 65, 86, 97, 122}
RECURSIVE ZStrings(_)
ZStrings(n) ==
    IF n = 0 THEN {<< >>}
    ELSE {<< >>} \cup {Append(s, c) : s \in ZStrings(n - 1), c \in ZChars}
ZIndexes == ZStrings(MaxZLen) \ {<< >>}

InitZ ==
    /\ z_before = {}
    /\ z_after = {}
    /\ z_index = {}

\* ------------------------------------------------------ CanvasDocument
\* The page CanvasDocument::new makes, and a page id no document holds.
FirstPage == "p1"
PageIds == {FirstPage, "p2"}

\* CanvasObject: its base properties and, for a group, its children.
CanvasObject(kind, id, page_id, children) ==
    [kind |-> kind, base |-> [id |-> id, page_id |-> page_id], children |-> children]
CanvasObjects ==
    {CanvasObject("rectangle", id, p, << >>) : id \in ObjectIds, p \in PageIds}
    \cup {CanvasObject("group", id, p, <<c>>) :
            id \in ObjectIds, p \in PageIds, c \in ObjectIds}

\* CanvasDocument::new
NewCanvasDocument ==
    [pages |-> <<FirstPage>>,
     objects |-> << >>,
     page_objects |-> [p \in {FirstPage} |-> << >>],
     version |-> 1]

\* CanvasDocument::add_object
add_object(doc, object) ==
    LET id == object.base.id
        page_id == object.base.page_id
        stored == [doc EXCEPT !.objects = [o \in DOMAIN doc.objects \cup {id} |->
                                               IF o = id THEN object ELSE doc.objects[o]]]
        pushed == IF page_id \in DOMAIN stored.page_objects
                  THEN [stored EXCEPT !.page_objects[page_id] = Append(@, id)]
                  ELSE stored
    IN  [pushed EXCEPT !.version = @ + 1]

\* CanvasDocument::remove_object
remove_object(doc, id) ==
    IF id \in DOMAIN doc.objects
    THEN LET object == doc.objects[id]
             page_id == object.base.page_id
             removed == [doc EXCEPT !.objects = [o \in DOMAIN doc.objects \ {id} |->
                                                     doc.objects[o]]]
             retained == IF page_id \in DOMAIN removed.page_objects
                         THEN [removed EXCEPT !.page_objects[page_id] =
                                                  retain(@, id)]
                         ELSE removed
         IN  [retained EXCEPT !.version = @ + 1]
    ELSE doc

InitDoc ==
    /\ canvas = NewCanvasDocument
    /\ canvas_calls = 0

\* -------------------------------------------------- render order, hits
\* slice::sort_by on z-indices: a stable sort, ascending or descending.
Before(a, b, descending) ==
    IF descending THEN StrLess(b.z_index, a.z_index) ELSE StrLess(a.z_index, b.z_index)
InsertSorted(sorted, x, descending) ==
    LET later == {i \in 1..Len(sorted) : Before(x, sorted[i], descending)}
        k == IF later = {} THEN Len(sorted) + 1
             ELSE CHOOSE i \in later : \A j \in later : i <= j
    IN  SubSeq(sorted, 1, k - 1) \o <<x>> \o SubSeq(sorted, k, Len(sorted))
RECURSIVE sort_by(_, _, _)
sort_by(seq, n, descending) ==
    IF n = 0 THEN << >>
    ELSE InsertSorted(sort_by(seq, n - 1, descending), seq[n], descending)

\* self.nodes.values().filter(|n| n.visible).collect(): the nodes in the
\* order the HashMap yields them.
VisibleValues(ns, order) ==
    LET values == [i \in 1..Len(order) |-> The(ns[order[i]])]
    IN  SelectSeq(values, LAMBDA n : n.visible)

\* SceneGraph::get_render_order (the ids of the nodes returned)
get_render_order(ns, order) ==
    LET visible == VisibleValues(ns, order)
        sorted == sort_by(visible, Len(visible), FALSE)
    IN  [i \in 1..Len(sorted) |-> sorted[i].id]

\* SceneGraph::hit_test (the id of the node returned)
hit_test(ns, order, point) ==
    LET visible == VisibleValues(ns, order)
        sorted == sort_by(visible, Len(visible), TRUE)
        found == SelectSeq(sorted, LAMBDA n : bounds_contains(n.world_bounds, point))
    IN  IF found = << >> THEN {} ELSE {found[1].id}

\* ecs::systems::hit_test: the entities the query yields and the filter
\* keeps. The query yields the renderable entities that carry WorldBounds.
Hits(w, x) ==
    {e \in Entities :
        /\ w[e] # {}
        /\ The(w[e]).renderable
        /\ The(w[e]).world_bounds # {}
        /\ The(w[e]).visibility.visible
        /\ ~The(w[e]).visibility.locked
        /\ bounds_contains(The(The(w[e]).world_bounds), x)}
\* ecs::systems::hit_test: the entities that can come first after the sort.
\* The sort is stable and the order in which a query yields entities is
\* not specified, so any of the hits with the greatest z-index can.
systems_hit_test(w, x) ==
    {e \in Hits(w, x) :
        \A o \in Hits(w, x) : ~StrLess(The(w[e]).z_index, The(w[o]).z_index)}

\* No hit test made yet.
NoHit == [by |-> "none", point |-> 0, found |-> {}]

InitQuery ==
    /\ render_order = {}
    /\ hit = NoHit
    /\ query_calls = 0

\* --------------------------------------------------------------- Camera
\* An f64 is kept in hundredths: Fixed(n) is the number n, and products and
\* quotients are cut to hundredths.
Fixed(n) == n * 100
FMul(a, b) == (a * b) \div Fixed(1)
\* The divisor is a zoom, which the clamps keep above zero.
FDiv(a, b) == (a * Fixed(1)) \div b
\* f64::clamp
clamp(v, min, max) == IF v < min THEN min ELSE IF v > max THEN max ELSE v

\* Camera::MIN_ZOOM (0.01), Camera::MAX_ZOOM (256.0)
MIN_ZOOM == 1
MAX_ZOOM == 25600

\* Point
Point(x, y) == [x |-> x, y |-> y]

\* Camera::default()
CameraDefault ==
    [x |-> 0, y |-> 0, zoom |-> Fixed(1),
     viewport_width |-> Fixed(800), viewport_height |-> Fixed(600)]

\* EngineOptions::default(), as far as the camera goes
EngineOptionsDefault == [min_zoom |-> MIN_ZOOM, max_zoom |-> MAX_ZOOM]

\* Camera::pan_by
pan_by(c, dx, dy) ==
    [c EXCEPT !.x = @ - FDiv(dx, c.zoom), !.y = @ - FDiv(dy, c.zoom)]

\* Camera::screen_to_canvas
screen_to_canvas(c, screen_x, screen_y) ==
    Point(FDiv(screen_x - c.viewport_width \div 2, c.zoom) + c.x,
          FDiv(screen_y - c.viewport_height \div 2, c.zoom) + c.y)

\* Camera::canvas_to_screen
canvas_to_screen(c, canvas_x, canvas_y) ==
    Point(FMul(canvas_x - c.x, c.zoom) + c.viewport_width \div 2,
          FMul(canvas_y - c.y, c.zoom) + c.viewport_height \div 2)

\* Camera::zoom_to
zoom_to(c, requested, screen_x, screen_y) ==
    LET new_zoom == clamp(requested, MIN_ZOOM, MAX_ZOOM)
        canvas_point == screen_to_canvas(c, screen_x, screen_y)
        zoomed == [c EXCEPT !.zoom = new_zoom]
        new_screen == canvas_to_screen(zoomed, canvas_point.x, canvas_point.y)
    IN  [zoomed EXCEPT !.x = @ + FDiv(new_screen.x - screen_x, zoomed.zoom),
                       !.y = @ + FDiv(new_screen.y - screen_y, zoomed.zoom)]

\* Camera::zoom_by
zoom_by(c, factor, screen_x, screen_y) ==
    zoom_to(c, FMul(c.zoom, factor), screen_x, screen_y)

\* No call made yet.
NoCameraCall == [op |-> "none", zoom |-> 0]

InitCamera ==
    /\ camera = CameraDefault
    /\ options = EngineOptionsDefault
    /\ needs_render = TRUE
    /\ camera_call = NoCameraCall
    /\ camera_calls = 0

\* ---------------------------------------------------------- ToolManager
\* ToolType
ToolTypes == {"Select", "Pan", "Rectangle", "Ellipse", "Line", "Pen", "Text"}
DrawTools == ToolTypes \ {"Select", "Pan"}

\* ToolState::default()
ToolStateDefault ==
    [is_dragging |-> FALSE, drag_start |-> {}, drag_current |-> {}, active_object |-> {}]

\* ToolManager::new
NewToolManager == [current_tool |-> "Select", state |-> ToolStateDefault]

\* InputEvent: the pointer events carry the point in canvas and in screen
\* coordinates and the button, the wheel its deltas and the ctrl/meta keys.
PointerDown(at, screen, button) ==
    [type |-> "PointerDown", canvas |-> at, screen |-> screen, button |-> button,
     delta |-> Point(0, 0), ctrl |-> FALSE]
PointerMove(at, screen) ==
    [type |-> "PointerMove", canvas |-> at, screen |-> screen, button |-> 0,
     delta |-> Point(0, 0), ctrl |-> FALSE]
PointerUp(at, screen) ==
    [type |-> "PointerUp", canvas |-> at, screen |-> screen, button |-> 0,
     delta |-> Point(0, 0), ctrl |-> FALSE]
Wheel(delta, screen, ctrl) ==
    [type |-> "Wheel", canvas |-> Point(0, 0), screen |-> screen, button |-> 0,
     delta |-> delta, ctrl |-> ctrl]
KeyDown ==
    [type |-> "KeyDown", canvas |-> Point(0, 0), screen |-> Point(0, 0), button |-> 0,
     delta |-> Point(0, 0), ctrl |-> FALSE]

\* What a handler leaves behind: the manager, the camera and the selection
\* after the event, and the value returned.
Handled(tm, cam, sel, consumed) ==
    [tools |-> tm, camera |-> cam, selection |-> sel, consumed |-> consumed]

\* ToolManager::set_tool, the state being left as it is.
set_tool_keeping_state(tm, tool) == [tm EXCEPT !.current_tool = tool]

\* ToolManager::set_tool
set_tool(tm, tool) == [current_tool |-> tool, state |-> ToolStateDefault]

\* ToolManager::handle_select_event; the scene keeps the x axis, so the hit
\* test is given the x of the point.
handle_select_event(tm, event, cam, ns, order, sel) ==
    CASE event.type = "PointerDown" ->
            IF event.button = 0
            THEN LET point == event.canvas
                     node == hit_test(ns, order, point.x)
                 IN  Handled([tm EXCEPT !.state.is_dragging = TRUE,
                                        !.state.drag_start = {point}],
                             cam,
                             IF node # {} THEN <<The(node)>> ELSE << >>,
                             TRUE)
            ELSE Handled(tm, cam, sel, FALSE)
      [] event.type = "PointerMove" -> Handled(tm, cam, sel, tm.state.is_dragging)
      [] event.type = "PointerUp" ->
            Handled([tm EXCEPT !.state.is_dragging = FALSE, !.state.drag_start = {}],
                    cam, sel, TRUE)
      [] OTHER -> Handled(tm, cam, sel, FALSE)

\* ToolManager::handle_pan_event
handle_pan_event(tm, event, cam, sel) ==
    CASE event.type = "PointerDown" ->
            IF event.button = 0 \/ event.button = 1
            THEN Handled([tm EXCEPT !.state.is_dragging = TRUE,
                                    !.state.drag_start = {event.screen}],
                         cam, sel, TRUE)
            ELSE Handled(tm, cam, sel, FALSE)
      [] event.type = "PointerMove" ->
            IF tm.state.is_dragging
            THEN IF tm.state.drag_start # {}
                 THEN LET start == The(tm.state.drag_start)
                      IN  Handled([tm EXCEPT !.state.drag_start = {event.screen}],
                                  pan_by(cam, event.screen.x - start.x,
                                         event.screen.y - start.y),
                                  sel, TRUE)
                 ELSE Handled(tm, cam, sel, TRUE)
            ELSE Handled(tm, cam, sel, FALSE)
      [] event.type = "PointerUp" ->
            Handled([tm EXCEPT !.state.is_dragging = FALSE, !.state.drag_start = {}],
                    cam, sel, TRUE)
      [] event.type = "Wheel" ->
            IF event.ctrl
            THEN Handled(tm,
                         zoom_by(cam, IF event.delta.y > 0 THEN 90 ELSE 110,
                                 event.screen.x, event.screen.y),
                         sel, TRUE)
            ELSE Handled(tm, pan_by(cam, 0 - event.delta.x, 0 - event.delta.y), sel, TRUE)
      [] OTHER -> Handled(tm, cam, sel, FALSE)

\* ToolManager::handle_draw_event, its PointerUp arm clearing what the
\* PointerUp arms of the other tools clear: is_dragging and drag_start.
handle_draw_event_keeping_current(tm, event, cam, sel) ==
    CASE event.type = "PointerDown" ->
            IF event.button = 0
            THEN Handled([tm EXCEPT !.state.is_dragging = TRUE,
                                    !.state.drag_start = {event.canvas}],
                         cam, sel, TRUE)
            ELSE Handled(tm, cam, sel, FALSE)
      [] event.type = "PointerMove" ->
            IF tm.state.is_dragging
            THEN Handled([tm EXCEPT !.state.drag_current = {event.canvas}], cam, sel, TRUE)
            ELSE Handled(tm, cam, sel, FALSE)
      [] event.type = "PointerUp" ->
            Handled([tm EXCEPT !.state.is_dragging = FALSE, !.state.drag_start = {}],
                    cam, sel, TRUE)
      [] OTHER -> Handled(tm, cam, sel, FALSE)

\* ToolManager::handle_draw_event
handle_draw_event(tm, event, cam, sel) ==
    CASE event.type = "PointerDown" ->
            IF event.button = 0
            THEN Handled([tm EXCEPT !.state.is_dragging = TRUE,
                                    !.state.drag_start = {event.canvas}],
                         cam, sel, TRUE)
            ELSE Handled(tm, cam, sel, FALSE)
      [] event.type = "PointerMove" ->
            IF tm.state.is_dragging
            THEN Handled([tm EXCEPT !.state.drag_current = {event.canvas}], cam, sel, TRUE)
            ELSE Handled(tm, cam, sel, FALSE)
      [] event.type = "PointerUp" ->
            Handled([tm EXCEPT !.state = ToolStateDefault], cam, sel, TRUE)
      [] OTHER -> Handled(tm, cam, sel, FALSE)

\* ToolManager::handle_event
handle_event(tm, event, cam, ns, order, sel) ==
    CASE tm.current_tool = "Select" -> handle_select_event(tm, event, cam, ns, order, sel)
      [] tm.current_tool = "Pan" -> handle_pan_event(tm, event, cam, sel)
      [] OTHER -> handle_draw_event(tm, event, cam, sel)

\* No call made yet.
NoToolCall == [op |-> "none", tool |-> "", event |-> KeyDown, consumed |-> FALSE,
               before |-> NewToolManager]

InitTool ==
    /\ tool_manager = NewToolManager
    /\ selection = << >>
    /\ events = << >>
    /\ tool_call = NoToolCall
    /\ tool_calls = 0


\* ------------------------------------------------------------------ locks
\* The task of a GET /stats request.
Stats == "stats"
LockTasks == Conns \cup {Stats}

\* tokio::sync::RwLock::new: nobody holds it, nobody waits.
NewLock == [held |-> {}, queue |-> << >>]

\* The lock is fair: the oldest waiter is served first, a reader when no
\* writer holds the lock, a writer when nobody holds it; the lock is handed
\* over as long as the oldest waiter can be served.
lock_ready(l) ==
    /\ l.queue # << >>
    /\ IF Head(l.queue)[2] = "read" THEN \A h \in l.held : h[2] = "read" ELSE l.held = {}
RECURSIVE lock_grant(_)
lock_grant(l) ==
    IF lock_ready(l)
    THEN lock_grant([held |-> l.held \cup {Head(l.queue)}, queue |-> Tail(l.queue)])
    ELSE l

\* read().await or write().await: the task joins the lock's queue, and has
\* the lock at once when it is first in the queue and the lock allows it.
lock_request(l, t, mode) == lock_grant([l EXCEPT !.queue = Append(@, <<t, mode>>)])

\* The guard is dropped, which serves the waiters.
lock_release(l, t) == lock_grant([l EXCEPT !.held = {h \in @ : h[1] # t}])

holds(l, t) == \E h \in l.held : h[1] = t
awaits(l, t) == \E i \in 1..Len(l.queue) : l.queue[i][1] = t
\* The task is suspended in the queue of some lock.
suspended(ls, t) ==
    \/ awaits(ls.sessions, t) \/ awaits(ls.documents, t)
    \/ \E i \in SessIds : awaits(ls.session[i], t)
    \/ \E d \in Docs : awaits(ls.replica[d], t)

InitLocks ==
    /\ locks = [sessions |-> NewLock, documents |-> NewLock,
                session |-> [i \in SessIds |-> NewLock],
                replica |-> [d \in Docs |-> NewLock]]
    /\ task_pc = [t \in LockTasks |-> "idle"]
    /\ task_waits = [t \in LockTasks |-> FALSE]
    /\ task_frame = [k \in Conns |-> "none"]
    /\ task_session = [k \in Conns |-> NoSession]
    /\ task_todo = [t \in LockTasks |-> {}]
    /\ mgr_sessions = [d \in Docs |-> NoSession]
    /\ mgr_heap = [i \in SessIds |-> FreeSession]
    /\ mgr_documents = [d \in Docs |-> {}]
    /\ handlers = 0


\* --------------------------------------------------------------- renderer
\* u16 values are 0 .. TwoTo16 - 1.
TwoTo16 == 65536
\* `x as u16`: the low 16 bits.
as_u16(x) == x % TwoTo16
\* const SEGMENTS in add_ellipse
SEGMENTS == 32

\* The ShapeType and shape component spawn_object inserts; `point` tells a
\* LineComponent whose start and end are the same point.
Shape(type, point) == [type |-> type, point |-> point]
Shapes ==
    {Shape(t, FALSE) : t \in {"Rectangle", "Ellipse", "Line", "Text"}} \cup {Shape("Line", TRUE)}

\* add_rectangle: the vertices pushed and the indices written; u16 sums
\* wrap (in a build without overflow checks).
add_rectangle(base_vertex) ==
    [vertices |-> 4,
     indices |-> <<base_vertex, as_u16(base_vertex + 1), as_u16(base_vertex + 2),
                   base_vertex, as_u16(base_vertex + 2), as_u16(base_vertex + 3)>>]

\* add_ellipse: the centre and SEGMENTS perimeter vertices, and a triangle
\* fan.
add_ellipse(base_vertex) ==
    [vertices |-> SEGMENTS + 1,
     indices |-> [j \in 1..(3 * SEGMENTS) |->
                    LET i == (j - 1) \div 3
                        next == (i + 1) % SEGMENTS
                    IN  CASE (j - 1) % 3 = 0 -> base_vertex
                          [] (j - 1) % 3 = 1 -> as_u16(base_vertex + 1 + i)
                          [] OTHER -> as_u16(base_vertex + 1 + next)]]

\* add_line: a quad, or nothing for a line shorter than 0.001.
add_line(base_vertex, point) ==
    IF point THEN [vertices |-> 0, indices |-> << >>] ELSE add_rectangle(base_vertex)

\* The greatest offset a shape adds to base_vertex in u16 arithmetic: the
\* sum overflows when it passes the greatest u16.
greatest_offset(shape) ==
    CASE shape.type = "Ellipse" -> SEGMENTS
      [] shape.type = "Line" /\ shape.point -> 0
      [] OTHER -> 3
overflows(vertices, shape) ==
    /\ shape.type \in {"Rectangle", "Ellipse", "Line"}
    /\ as_u16(vertices) + greatest_offset(shape) >= TwoTo16

\* No geometry: build_geometry's three locals as it creates them.
NoGeometry == [vertices |-> 0, shapes |-> << >>, objects_rendered |-> 0]

\* One turn of build_geometry's loop, for entity e with the given shape: g
\* is (vertices.len(), the shapes written, objects_rendered). A shape is
\* recorded with the place of its first vertex in the vertex list, the
\* number of its vertices, its base_vertex and its indices.
build_shape(g, e, shape) ==
    LET base_vertex == as_u16(g.vertices)
        added == CASE shape.type = "Rectangle" -> add_rectangle(base_vertex)
                   [] shape.type = "Ellipse" -> add_ellipse(base_vertex)
                   [] OTHER -> add_line(base_vertex, shape.point)
    IN  IF shape.type \notin {"Rectangle", "Ellipse", "Line"} THEN g
        ELSE [vertices |-> g.vertices + added.vertices,
              shapes |-> Append(g.shapes, [entity |-> e, first |-> g.vertices,
                                           count |-> added.vertices,
                                           base_vertex |-> base_vertex,
                                           indices |-> added.indices]),
              objects_rendered |-> g.objects_rendered + 1]

\* The query of build_geometry and of ecs::systems::get_render_order: the
\* entities that carry the Renderable marker and are visible, sorted by
\* z-index (a stable sort of the entities as the query yields them).
render_query(w) ==
    LET all == [i \in 1..Len(EntityOrder) |->
                   [entity |-> EntityOrder[i],
                    z_index |-> IF w[EntityOrder[i]] = {} THEN << >>
                                ELSE The(w[EntityOrder[i]]).z_index]]
        kept == SelectSeq(all, LAMBDA x :
                    /\ w[x.entity] # {}
                    /\ The(w[x.entity]).renderable
                    /\ The(w[x.entity]).visibility.visible)
    IN  sort_by(kept, Len(kept), FALSE)

\* ecs::systems::get_render_order (the entities returned)
systems_get_render_order(w) ==
    LET sorted == render_query(w) IN [i \in 1..Len(sorted) |-> sorted[i].entity]

\* Renderer::build_geometry: the loop over the sorted entities; an entity
\* without a ShapeType takes the `_` arm.
RECURSIVE build_entities(_, _, _, _)
build_entities(g, sorted, i, shapes) ==
    IF i > Len(sorted) THEN g
    ELSE build_entities(IF shapes[sorted[i].entity] = {} THEN g
                        ELSE build_shape(g, sorted[i].entity, The(shapes[sorted[i].entity])),
                        sorted, i + 1, shapes)
build_geometry(w, shapes) == build_entities(NoGeometry, render_query(w), 1, shapes)

InitRender ==
    /\ shape_type = [e \in Entities |-> {}]
    /\ geometry = NoGeometry
    /\ listed = << >>
    /\ render_pc = "idle"
    /\ emitted = 0

InitCanvas == InitScene /\ InitHier /\ InitZ /\ InitDoc /\ InitQuery /\ InitCamera /\ InitTool /\ InitRender

\* -------------------------------------------------------------------- Init
Init ==
    /\ sessions = [d \in Docs |-> NoSession]
    /\ sess = [i \in SessIds |-> FreeSession]
    /\ documents = [d \in Docs |-> {}]
    /\ chan = [k \in Conns |-> << >>]
    /\ pc = [k \in Conns |-> "idle"]
    /\ cur = [k \in Conns |-> NoFrame]
    /\ session = [k \in Conns |-> NoSession]
    /\ saved = [k \in Conns |-> {}]
    /\ client_info = [k \in Conns |-> {}]
    /\ client_id = [k \in Conns |-> {}]
    /\ todo = [k \in Conns |-> {}]
    /\ nframes = 0
    /\ inbox = [k \in Conns |-> << >>]
    /\ wire = [k \in Conns |-> << >>]
    /\ send_task = [k \in Conns |-> "running"]
    /\ store = [d \in Docs |-> NoReplica]
    /\ minted = 0
    /\ made = [d \in Docs |-> {}]
    /\ removes = [d \in Docs |-> 0]
    /\ got = [t \in Callers |-> NoCall]
    /\ calls = 0
    /\ cdoc = [applied |-> {}, queue |-> {}]
    /\ cstate = NewSyncState
    /\ awaiting = "no"
    /\ synced = "none"
    /\ InitLocks
    /\ InitCanvas

\* handle_socket reads the next frame (the previous handler has returned).
Reads(k) ==
    /\ pc[k] = "idle"
    /\ nframes < MaxFrames
    /\ nframes' = nframes + 1

\* A handler returns: its locals, among them the session Arc, are dropped.
\* The reader goes back to its loop, or to handle_disconnect's loop when the
\* handler was called from there.
Returns(k, map, heap) ==
    /\ pc' = [pc EXCEPT ![k] = IF cur[k].type = "close" THEN "disc" ELSE "idle"]
    /\ cur' = [cur EXCEPT ![k] = IF cur[k].type = "close"
                                  THEN Frame("close", "", cur[k].client_id, NoPayload)
                                  ELSE NoFrame]
    /\ session' = [session EXCEPT ![k] = NoSession]
    /\ saved' = [saved EXCEPT ![k] = {}]
    /\ client_info' = [client_info EXCEPT ![k] = {}]
    /\ sess' = Collect(heap, map, session')

\* SessionManager::get_or_create_session: the map, the sessions and the
\* handle returned
get_or_create_session(map, heap, d) ==
    IF map[d] # NoSession THEN [map |-> map, heap |-> heap, handle |-> map[d]]
    ELSE LET i == NewSessionId(heap)
         IN  [map |-> [map EXCEPT ![d] = i],
              heap |-> [heap EXCEPT ![i] = NewDocumentSession(d)],
              handle |-> i]

\* SessionManager::get_session
get_session(map, d) == map[d]

\* remove_session as a slip would have it: the entry stays.
remove_session_kept(map, d) == map

\* SessionManager::remove_session
remove_session(map, d) == [map EXCEPT ![d] = NoSession]

\* ----------------------------------------------------- handle_join_document
\* The frame is read, handle_socket records its client id, and the handler
\* gets or creates the session.
JoinGetSession(k, f) ==
    /\ Reads(k)
    /\ cur' = [cur EXCEPT ![k] = f]
    /\ client_id' = [client_id EXCEPT ![k] = {f.client_id}]
    /\ LET r == get_or_create_session(sessions, sess, f.document_id)
       IN  /\ sessions' = r.map
           /\ sess' = r.heap
           /\ session' = [session EXCEPT ![k] = r.handle]
    /\ pc' = [pc EXCEPT ![k] = "join_doc"]
    /\ UNCHANGED <<documents, chan, saved, client_info, todo>>

\* document_store().get_or_create(&document_id)
JoinGetDocument(k) ==
    /\ pc[k] = "join_doc"
    /\ documents' = get_or_create(documents, cur[k].document_id)
    /\ pc' = [pc EXCEPT ![k] = "join_state"]
    /\ UNCHANGED <<sessions, sess, chan, cur, session, saved, client_info, client_id,
                   todo, nframes>>

\* A panic unwinds the connection's task: the handler's and handle_socket's
\* locals are dropped and nothing after the reader loop runs.
Panics(k) ==
    /\ pc' = [pc EXCEPT ![k] = "panicked"]
    /\ session' = [session EXCEPT ![k] = NoSession]
    /\ saved' = [saved EXCEPT ![k] = {}]
    /\ client_info' = [client_info EXCEPT ![k] = {}]
    /\ sess' = Collect(sess, sessions, session')

\* (doc_bytes, version) under the document's write lock; then the arguments
\* of ClientConnection::new, of which the display name may panic.
JoinReadState(k) ==
    /\ pc[k] = "join_state"
    /\ IF PrefixPanics(cur[k].client_id)
       THEN Panics(k)
       ELSE /\ LET doc == The(documents[cur[k].document_id])
               IN  saved' = [saved EXCEPT ![k] =
                                {[doc_bytes |-> to_bytes(doc),
                                  version |-> Cardinality(get_heads(doc))]}]
            /\ pc' = [pc EXCEPT ![k] = "join_add"]
            /\ UNCHANGED <<sess, session, client_info>>
    /\ UNCHANGED <<sessions, documents, chan, cur, client_id, todo, nframes>>

\* The registering step as a slip would have it: a client that is already
\* registered is registered again without a second JoinAck.
JoinAddClientQuiet(k) ==
    /\ pc[k] = "join_add"
    /\ LET s == sess[session[k]]
           connected_clients == get_clients(s)
           client == NewClientConnection(cur[k].client_id, k, k)
           st == The(saved[k])
       IN  /\ sess' = [sess EXCEPT ![session[k]] = add_client(s, client)]
           /\ chan' = IF s.clients[cur[k].client_id] # {} THEN chan
                      ELSE Send(chan, k,
                                JoinAck(cur[k].document_id, cur[k].client_id,
                                        B64Encode(st.doc_bytes), st.version, connected_clients))
    /\ pc' = [pc EXCEPT ![k] = "join_info"]
    /\ UNCHANGED <<sessions, documents, cur, session, saved, client_info, client_id,
                   todo, nframes>>

\* Under the session's write lock: the clients before, then add_client; the
\* JoinAck follows without an await.
JoinAddClient(k) ==
    /\ pc[k] = "join_add"
    /\ LET s == sess[session[k]]
           connected_clients == get_clients(s)
           client == NewClientConnection(cur[k].client_id, k, k)
           st == The(saved[k])
       IN  /\ sess' = [sess EXCEPT ![session[k]] = add_client(s, client)]
           /\ chan' = Send(chan, k,
                           JoinAck(cur[k].document_id, cur[k].client_id,
                                   B64Encode(st.doc_bytes), st.version, connected_clients))
    /\ pc' = [pc EXCEPT ![k] = "join_info"]
    /\ UNCHANGED <<sessions, documents, cur, session, saved, client_info, client_id,
                   todo, nframes>>

\* client_info under the session's read lock; the handler returns when the
\* client is no longer there.
JoinClientInfo(k) ==
    /\ pc[k] = "join_info"
    /\ LET info == {to_client_info(x) : x \in get_client(sess[session[k]], cur[k].client_id)}
       IN  IF info = {}
           THEN /\ Returns(k, sessions, sess)
                /\ UNCHANGED <<sessions, documents, chan, client_id, todo, nframes>>
           ELSE /\ client_info' = [client_info EXCEPT ![k] = info]
                /\ pc' = [pc EXCEPT ![k] = "join_bcast"]
                /\ UNCHANGED <<sessions, sess, documents, chan, cur, session, saved,
                               client_id, todo, nframes>>

\* ClientJoined to the others, under the session's read lock.
JoinBroadcast(k) ==
    /\ pc[k] = "join_bcast"
    /\ chan' = broadcast(chan, sess[session[k]],
                         ClientJoined(cur[k].document_id, The(client_info[k])),
                         {cur[k].client_id})
    /\ Returns(k, sessions, sess)
    /\ UNCHANGED <<sessions, documents, client_id, todo, nframes>>

\* ---------------------------------------------------- handle_leave_document
\* get_session(&document_id); the handler returns when there is no session.
\* `f` is the frame being handled.
LeaveLookup(k, f) ==
    LET h == get_session(sessions, f.document_id)
    IN  IF h = NoSession
        THEN Returns(k, sessions, sess)
        ELSE /\ cur' = [cur EXCEPT ![k] = f]
             /\ session' = [session EXCEPT ![k] = h]
             /\ pc' = [pc EXCEPT ![k] = "leave_lock"]
             /\ UNCHANGED <<sess, saved, client_info>>

LeaveGetSession(k, f) ==
    /\ Reads(k)
    /\ LeaveLookup(k, f)
    /\ UNCHANGED <<sessions, documents, chan, client_id, todo>>

\* Under the session's write lock: remove_client; when a client was removed,
\* remove_sync_state for this connection's token and ClientLeft to all; then
\* is_empty. The document lock is taken inside the session lock; no other
\* connection touches this token's sync state, so the two sections are one
\* step.
LeaveRemoveClient(k) ==
    /\ pc[k] = "leave_lock"
    /\ LET d == cur[k].document_id
           c == cur[k].client_id
           s == sess[session[k]]
           removed == s.clients[c] # {}
           s1 == remove_client(s, c)
           heap == [sess EXCEPT ![session[k]] = s1]
       IN  /\ documents' =
                 IF removed /\ documents[d] # {}
                 THEN [documents EXCEPT ![d] = {remove_sync_state(The(@), k)}]
                 ELSE documents
           /\ chan' = IF removed THEN broadcast(chan, s1, ClientLeft(d, c), {}) ELSE chan
           /\ IF is_empty(s1)
              THEN /\ sess' = heap
                   /\ pc' = [pc EXCEPT ![k] = "leave_rm"]
                   /\ UNCHANGED <<cur, session, saved, client_info>>
              ELSE Returns(k, sessions, heap)
    /\ UNCHANGED <<sessions, client_id, todo, nframes>>

\* remove_session, after the session's lock is dropped.
LeaveRemoveSession(k) ==
    /\ pc[k] = "leave_rm"
    /\ sessions' = remove_session(sessions, cur[k].document_id)
    /\ Returns(k, sessions', sess)
    /\ UNCHANGED <<documents, chan, client_id, todo, nframes>>

\* handle_change's first step as a slip would have it: a payload that is no
\* base64 is answered with an Error frame, as handle_sync_request does.
ChangeDecodeNack(k, f) ==
    /\ Reads(k)
    /\ IF ~B64Ok(f.payload)
       THEN /\ chan' = Send(chan, k, ErrorMsg("INVALID_MESSAGE", f.document_id))
            /\ UNCHANGED <<documents, pc, cur>>
       ELSE /\ documents' = get_or_create(documents, f.document_id)
            /\ cur' = [cur EXCEPT ![k] = f]
            /\ pc' = [pc EXCEPT ![k] = "change_apply"]
            /\ UNCHANGED chan
    /\ UNCHANGED <<sessions, sess, session, saved, client_info, client_id, todo>>

\* ------------------------------------------------------------ handle_change
\* base64 decoding, then document_store().get_or_create.
ChangeDecode(k, f) ==
    /\ Reads(k)
    /\ IF ~B64Ok(f.payload)
       THEN UNCHANGED <<documents, pc, cur>>
       ELSE /\ documents' = get_or_create(documents, f.document_id)
            /\ cur' = [cur EXCEPT ![k] = f]
            /\ pc' = [pc EXCEPT ![k] = "change_apply"]
    /\ UNCHANGED <<sessions, sess, chan, session, saved, client_info, client_id, todo>>

\* apply_change and the new version, under the document's write lock.
ChangeApply(k) ==
    /\ pc[k] = "change_apply"
    /\ LET d == cur[k].document_id
           bytes == B64Decode(cur[k].payload)
       IN  IF ~LoadOk(bytes)
           THEN /\ Returns(k, sessions, sess)
                /\ UNCHANGED documents
           ELSE LET doc == apply_change(The(documents[d]), bytes)
                IN  /\ documents' = [documents EXCEPT ![d] = {doc}]
                    /\ saved' = [saved EXCEPT ![k] =
                                    {[version |-> Cardinality(get_heads(doc))]}]
                    /\ pc' = [pc EXCEPT ![k] = "change_get"]
                    /\ UNCHANGED <<sess, cur, session, client_info>>
    /\ UNCHANGED <<sessions, chan, client_id, todo, nframes>>

\* get_session(&document_id)
ChangeGetSession(k) ==
    /\ pc[k] = "change_get"
    /\ LET h == get_session(sessions, cur[k].document_id)
       IN  IF h = NoSession
           THEN Returns(k, sessions, sess)
           ELSE /\ session' = [session EXCEPT ![k] = h]
                /\ pc' = [pc EXCEPT ![k] = "change_bcast"]
                /\ UNCHANGED <<sess, cur, saved, client_info>>
    /\ UNCHANGED <<sessions, documents, chan, client_id, todo, nframes>>

\* ChangeBroadcast to the others, under the session's read lock.
ChangeBroadcast(k) ==
    /\ pc[k] = "change_bcast"
    /\ chan' = broadcast(chan, sess[session[k]],
                         ChangeBroadcastMsg(cur[k].document_id, cur[k].client_id,
                                            cur[k].payload, The(saved[k]).version),
                         {cur[k].client_id})
    /\ Returns(k, sessions, sess)
    /\ UNCHANGED <<sessions, documents, client_id, todo, nframes>>

\* handle_sync_request's first step as a slip would have it: a payload that
\* does not decode is dropped without an answer, as handle_change does.
SyncDecodeSilent(k, f) ==
    /\ Reads(k)
    /\ IF ~B64Ok(f.payload) \/ ~SyncDecodeOk(B64Decode(f.payload))
       THEN UNCHANGED <<documents, pc, cur>>
       ELSE /\ documents' = get_or_create(documents, f.document_id)
            /\ cur' = [cur EXCEPT ![k] = f]
            /\ pc' = [pc EXCEPT ![k] = "sync_doc"]
    /\ UNCHANGED <<sessions, sess, chan, session, saved, client_info, client_id, todo>>

\* ------------------------------------------------------ handle_sync_request
\* base64 decoding and Message::decode, each answered by an Error frame when
\* it fails; then document_store().get_or_create.
SyncDecode(k, f) ==
    /\ Reads(k)
    /\ IF ~B64Ok(f.payload) \/ ~SyncDecodeOk(B64Decode(f.payload))
       THEN /\ chan' = Send(chan, k, ErrorMsg("SYNC_ERROR", f.document_id))
            /\ UNCHANGED <<documents, pc, cur>>
       ELSE /\ documents' = get_or_create(documents, f.document_id)
            /\ cur' = [cur EXCEPT ![k] = f]
            /\ pc' = [pc EXCEPT ![k] = "sync_doc"]
            /\ UNCHANGED chan
    /\ UNCHANGED <<sessions, sess, session, saved, client_info, client_id, todo>>

\* receive_sync_message, then generate_sync_message, under the document's
\* write lock; the answer follows without an await.
SyncProcess(k) ==
    /\ pc[k] = "sync_doc"
    /\ \E d \in {cur[k].document_id} :
       \E r \in {receive_sync_message(The(documents[d]), k, B64Decode(cur[k].payload))} :
       \E g \in {generate_sync_message(r.doc, k)} :
           IF ~r.ok
           THEN /\ documents' = [documents EXCEPT ![d] = {r.doc}]
                /\ chan' = Send(chan, k, ErrorMsg("SYNC_ERROR", d))
           ELSE /\ documents' = [documents EXCEPT ![d] = {g.doc}]
                /\ chan' = Send(chan, k, SyncResponse(d, g.msg))
    /\ Returns(k, sessions, sess)
    /\ UNCHANGED <<sessions, client_id, todo, nframes>>

\* ---- handle_cursor_move, handle_selection_update, handle_presence_update
\* The three handlers differ in the field they set and in the broadcast
\* they make. get_session(&document_id); the handler returns when there is
\* no session.
UpdateGetSession(k, f) ==
    /\ Reads(k)
    /\ LET h == get_session(sessions, f.document_id)
       IN  IF h = NoSession
           THEN Returns(k, sessions, sess)
           ELSE /\ cur' = [cur EXCEPT ![k] = f]
                /\ session' = [session EXCEPT ![k] = h]
                /\ pc' = [pc EXCEPT ![k] = "update_lock"]
                /\ UNCHANGED <<sess, saved, client_info>>
    /\ UNCHANGED <<sessions, documents, chan, client_id, todo>>

\* Under the session's write lock: the client's cached value is set, when
\* the client is there.
UpdateClient(k) ==
    /\ pc[k] = "update_lock"
    /\ sess' = [sess EXCEPT ![session[k]] =
                    update_client(@, cur[k].client_id, cur[k].type, cur[k].payload.body.value)]
    /\ pc' = [pc EXCEPT ![k] = "update_bcast"]
    /\ UNCHANGED <<sessions, documents, chan, cur, session, saved, client_info, client_id,
                   todo, nframes>>

\* The broadcast to the others, under the session's read lock.
UpdateBroadcast(k) ==
    /\ pc[k] = "update_bcast"
    /\ chan' = broadcast(chan, sess[session[k]], UpdateBroadcastMsg(cur[k]), {cur[k].client_id})
    /\ Returns(k, sessions, sess)
    /\ UNCHANGED <<sessions, documents, client_id, todo, nframes>>

\* ------------------------------------------- handle_socket, handle_disconnect
\* A close frame or a read error ends the reader loop. Without a recorded
\* client id nothing is cleaned up; otherwise handle_disconnect lists the
\* active sessions.
SocketClose(k) ==
    /\ Reads(k)
    /\ IF client_id[k] = {}
       THEN /\ pc' = [pc EXCEPT ![k] = "closed"]
            /\ UNCHANGED <<todo, cur>>
       ELSE /\ pc' = [pc EXCEPT ![k] = "disc"]
            /\ cur' = [cur EXCEPT ![k] = Frame("close", "", The(client_id[k]), NoPayload)]
            /\ todo' = [todo EXCEPT ![k] = active_sessions]
    /\ UNCHANGED <<sessions, sess, documents, chan, session, saved, client_info, client_id>>

\* handle_disconnect's loop: handle_leave_document for the next listed
\* document, in the list's (arbitrary) order.
DisconnectNext(k) ==
    /\ pc[k] = "disc"
    /\ \E d \in todo[k] :
        /\ todo' = [todo EXCEPT ![k] = @ \ {d}]
        /\ LeaveLookup(k, [cur[k] EXCEPT !.document_id = d])
    /\ UNCHANGED <<sessions, documents, chan, client_id, nframes>>

\* The loop is over; the send task is aborted.
DisconnectDone(k) ==
    /\ pc[k] = "disc"
    /\ todo[k] = {}
    /\ pc' = [pc EXCEPT ![k] = "closed"]
    /\ cur' = [cur EXCEPT ![k] = NoFrame]
    /\ UNCHANGED <<sessions, sess, documents, chan, session, saved, client_info,
                   client_id, todo, nframes>>

\* ---------------------------------------------------------- specification
\* One step of connection k's reader task, its frames drawn from the sets
\* given: the reader takes a frame and starts its handler, or goes on with
\* the handler it is in. The socket's two ends are left alone.
Handle(k, joins, leaves, changes, syncs) ==
    \/ (\E f \in joins : JoinGetSession(k, f)) /\ UNCHANGED aside
    \/ JoinGetDocument(k) /\ UNCHANGED aside
    \/ JoinReadState(k) /\ UNCHANGED aside
    \/ JoinAddClient(k) /\ UNCHANGED aside
    \/ JoinClientInfo(k) /\ UNCHANGED aside
    \/ JoinBroadcast(k) /\ UNCHANGED aside
    \/ (\E f \in leaves : LeaveGetSession(k, f)) /\ UNCHANGED aside
    \/ LeaveRemoveClient(k) /\ UNCHANGED aside
    \/ LeaveRemoveSession(k) /\ UNCHANGED aside
    \/ (\E f \in changes : ChangeDecode(k, f)) /\ UNCHANGED aside
    \/ ChangeApply(k) /\ UNCHANGED aside
    \/ ChangeGetSession(k) /\ UNCHANGED aside
    \/ ChangeBroadcast(k) /\ UNCHANGED aside
    \/ (\E f \in syncs : SyncDecode(k, f)) /\ UNCHANGED aside
    \/ SyncProcess(k) /\ UNCHANGED aside
    \/ SocketClose(k) /\ UNCHANGED aside
    \/ DisconnectNext(k) /\ UNCHANGED aside
    \/ DisconnectDone(k) /\ UNCHANGED aside

\* Clients name any client id in any frame.
Next == \E k \in Conns : Handle(k, JoinFrames, LeaveFrames, ChangeFrames, SyncFrames)

Spec == Init /\ [][Next]_vars

\* Well-behaved clients: every connection keeps to one client id of its own.
OwnId(k) == IF k = "k1" THEN "a" ELSE "b"
Own(k, frames) == {f \in frames : f.client_id = OwnId(k)}
NextOwnIds ==
    \E k \in Conns : Handle(k, Own(k, JoinFrames), Own(k, LeaveFrames),
                            Own(k, ChangeFrames), Own(k, SyncFrames))

SpecOwnIds == Init /\ [][NextOwnIds]_vars

\* --------------------------------------------- the two ends of the socket
\* ws_receiver.next(): the stream yields the oldest frame not yet read.
NextFrame(q) == Head(q)

\* rx.recv() of the send task, n messages received before: the oldest message
\* on the channel not yet received.
recvNewest(q, n) == q[Len(q)]
recv(q, n) == q[n + 1]

\* What a client puts on its socket: frames about one document under its
\* own client id (a change, a sync request that is answered with an Error
\* and one that is answered with a SyncResponse), and the closing frame.
CloseFrame == Frame("close", "", "", NoPayload)
WireDoc == "d1"
WirePayloads ==
    {NoPayload, NotBase64, B64Encode(ChangeBytes("x1")), B64Encode(SyncBytes({}, {}, FALSE))}
WireFrames(k) ==
    {f \in Own(k, JoinFrames \cup LeaveFrames \cup ChangeFrames \cup SyncFrames) :
        f.document_id = WireDoc /\ f.payload \in WirePayloads} \cup {CloseFrame}

RECURSIVE Queued(_)
Queued(ks) ==
    IF ks = {} THEN 0
    ELSE LET k == CHOOSE x \in ks : TRUE IN Len(inbox[k]) + Queued(ks \ {k})

\* A frame arrives on connection k's socket.
Arrive(k, f) ==
    /\ nframes + Queued(Conns) < MaxFrames
    /\ pc[k] \notin {"disc", "closed"}
    /\ \A i \in 1..Len(inbox[k]) : inbox[k][i] # CloseFrame
    /\ inbox' = [inbox EXCEPT ![k] = Append(@, f)]
    /\ UNCHANGED <<sessions, sess, documents, chan, pc, cur, session, saved, client_info,
                   client_id, todo, nframes, wire, send_task, asideWire>>

\* The frame connection k's reader takes next, if any.
Arrived(k) == IF inbox[k] = << >> THEN {} ELSE {NextFrame(inbox[k])}

\* The reader has taken a frame off the stream.
Taken(k) == inbox' = [inbox EXCEPT ![k] = Tail(@)]

\* handle_socket's last line: send_task.abort(), once the reader is done.
Aborts(k) ==
    send_task' = [send_task EXCEPT ![k] = IF pc'[k] = "closed" THEN "aborted" ELSE @]

\* The send task: it receives the next message of the channel and writes
\* it to the socket; when the write fails the task ends. (Serializing a
\* ServerMessage of strings and numbers does not fail.)
SendTask(k) ==
    /\ send_task[k] = "running"
    /\ Len(wire[k]) < Len(chan[k])
    /\ \/ /\ wire' = [wire EXCEPT ![k] = Append(@, recv(chan[k], Len(wire[k])))]
          /\ UNCHANGED send_task
       \/ /\ send_task' = [send_task EXCEPT ![k] = "ended"]
          /\ UNCHANGED wire
    /\ UNCHANGED <<sessions, sess, documents, chan, pc, cur, session, saved, client_info,
                   client_id, todo, nframes, inbox, asideWire>>

\* One step of connection k with its socket: a frame arrives, the reader
\* takes the next frame and starts its handler or goes on with the handler
\* it is in, or the send task writes.
HandleWire(k) ==
    \/ \E f \in WireFrames(k) : Arrive(k, f)
    \/ (\E f \in Arrived(k) \cap JoinFrames : JoinGetSession(k, f))
            /\ Taken(k) /\ Aborts(k) /\ UNCHANGED <<wire, asideWire>>
    \/ (\E f \in Arrived(k) \cap LeaveFrames : LeaveGetSession(k, f))
            /\ Taken(k) /\ Aborts(k) /\ UNCHANGED <<wire, asideWire>>
    \/ (\E f \in Arrived(k) \cap ChangeFrames : ChangeDecode(k, f))
            /\ Taken(k) /\ Aborts(k) /\ UNCHANGED <<wire, asideWire>>
    \/ (\E f \in Arrived(k) \cap SyncFrames : SyncDecode(k, f))
            /\ Taken(k) /\ Aborts(k) /\ UNCHANGED <<wire, asideWire>>
    \/ (Arrived(k) = {CloseFrame} /\ SocketClose(k))
            /\ Taken(k) /\ Aborts(k) /\ UNCHANGED <<wire, asideWire>>
    \/ JoinGetDocument(k) /\ Aborts(k) /\ UNCHANGED <<inbox, wire, asideWire>>
    \/ JoinReadState(k) /\ Aborts(k) /\ UNCHANGED <<inbox, wire, asideWire>>
    \/ JoinAddClient(k) /\ Aborts(k) /\ UNCHANGED <<inbox, wire, asideWire>>
    \/ JoinClientInfo(k) /\ Aborts(k) /\ UNCHANGED <<inbox, wire, asideWire>>
    \/ JoinBroadcast(k) /\ Aborts(k) /\ UNCHANGED <<inbox, wire, asideWire>>
    \/ LeaveRemoveClient(k) /\ Aborts(k) /\ UNCHANGED <<inbox, wire, asideWire>>
    \/ LeaveRemoveSession(k) /\ Aborts(k) /\ UNCHANGED <<inbox, wire, asideWire>>
    \/ ChangeApply(k) /\ Aborts(k) /\ UNCHANGED <<inbox, wire, asideWire>>
    \/ ChangeGetSession(k) /\ Aborts(k) /\ UNCHANGED <<inbox, wire, asideWire>>
    \/ ChangeBroadcast(k) /\ Aborts(k) /\ UNCHANGED <<inbox, wire, asideWire>>
    \/ SyncProcess(k) /\ Aborts(k) /\ UNCHANGED <<inbox, wire, asideWire>>
    \/ DisconnectNext(k) /\ Aborts(k) /\ UNCHANGED <<inbox, wire, asideWire>>
    \/ DisconnectDone(k) /\ Aborts(k) /\ UNCHANGED <<inbox, wire, asideWire>>
    \/ SendTask(k)

NextWire == \E k \in Conns : HandleWire(k)

SpecWire == Init /\ [][NextWire]_vars

\* ------------------------------------------------------------------ panics
\* Clients that also send joins under a client id whose display name
\* cannot be cut.
RaggedJoins == {Frame("join_document", d, RaggedId, NoPayload) : d \in Docs}
NextPanic ==
    \E k \in Conns : Handle(k, Own(k, JoinFrames) \cup RaggedJoins, Own(k, LeaveFrames),
                            Own(k, ChangeFrames), Own(k, SyncFrames))

SpecPanic == Init /\ [][NextPanic]_vars

\* ----------------------------------------------------------- DocumentStore
\* DocumentStore::get_or_create, under the write lock of the map: the map
\* afterwards, the replica returned and whether it was created. `fresh` is
\* the replica Arc::new would make.
store_get_or_create_fresh(st, d, fresh) ==
    [documents |-> [st EXCEPT ![d] = fresh], replica |-> fresh, created |-> TRUE]
store_get_or_create(st, d, fresh) ==
    IF st[d] = NoReplica
    THEN [documents |-> [st EXCEPT ![d] = fresh], replica |-> fresh, created |-> TRUE]
    ELSE [documents |-> st, replica |-> st[d], created |-> FALSE]

\* DocumentStore::remove
store_remove(st, d) == [st EXCEPT ![d] = NoReplica]

\* A task calls get_or_create(d). The call is one critical section: the
\* write lock is held from contains_key to the clone of the Arc.
StoreGetOrCreate(t, d) ==
    /\ calls < MaxStoreCalls
    /\ calls' = calls + 1
    /\ LET r == store_get_or_create(store, d, minted + 1)
       IN  /\ store' = r.documents
           /\ minted' = IF r.created THEN minted + 1 ELSE minted
           /\ made' = IF r.created THEN [made EXCEPT ![d] = @ \cup {r.replica}] ELSE made
           /\ got' = [got EXCEPT ![t] = [document_id |-> d, replica |-> r.replica,
                                         removes |-> removes[d]]]
    /\ UNCHANGED <<removes, asideStore>>
    /\ UNCHANGED <<sessions, sess, documents, chan, pc, cur, session, saved, client_info,
                   client_id, todo, nframes>>

\* A task calls remove(d).
StoreRemove(t, d) ==
    /\ calls < MaxStoreCalls
    /\ calls' = calls + 1
    /\ store' = store_remove(store, d)
    /\ removes' = [removes EXCEPT ![d] = @ + 1]
    /\ made' = [made EXCEPT ![d] = {}]
    /\ UNCHANGED <<minted, got, asideStore>>
    /\ UNCHANGED <<sessions, sess, documents, chan, pc, cur, session, saved, client_info,
                   client_id, todo, nframes>>

NextStore == \E t \in Callers, d \in Docs : StoreGetOrCreate(t, d) \/ StoreRemove(t, d)

SpecStore == Init /\ [][NextStore]_vars

\* ---------------------------------------------------------------- presence
\* Clients that join and leave one document and send their cursor,
\* selection and status, each under its own client id.
PresenceOf(k, frames) == {f \in Own(k, frames) : f.document_id = WireDoc}
HandlePresence(k) ==
    \/ (\E f \in PresenceOf(k, JoinFrames) : JoinGetSession(k, f)) /\ UNCHANGED aside
    \/ JoinGetDocument(k) /\ UNCHANGED aside
    \/ JoinReadState(k) /\ UNCHANGED aside
    \/ JoinAddClient(k) /\ UNCHANGED aside
    \/ JoinClientInfo(k) /\ UNCHANGED aside
    \/ JoinBroadcast(k) /\ UNCHANGED aside
    \/ (\E f \in PresenceOf(k, LeaveFrames) : LeaveGetSession(k, f)) /\ UNCHANGED aside
    \/ LeaveRemoveClient(k) /\ UNCHANGED aside
    \/ LeaveRemoveSession(k) /\ UNCHANGED aside
    \/ (\E f \in PresenceOf(k, UpdateFrames) : UpdateGetSession(k, f)) /\ UNCHANGED aside
    \/ UpdateClient(k) /\ UNCHANGED aside
    \/ UpdateBroadcast(k) /\ UNCHANGED aside

NextPresence == \E k \in Conns : HandlePresence(k)

SpecPresence == Init /\ [][NextPresence]_vars

\* ------------------------------------------------------- a syncing client
\* The connection of the client, and the sets of changes a replica can hold
\* (a change is applied after the changes it depends on).
Syncer == "k1"
Replicas == {cs \in SUBSET Changes : \A x \in cs : Deps(x) \subseteq cs}

\* No change arrives any more: the server's replica of the document and the
\* client's replica hold what they hold, and the client has not synced yet.
InitSync ==
    /\ sessions = [d \in Docs |-> NoSession]
    /\ sess = [i \in SessIds |-> FreeSession]
    /\ \E cs \in Replicas :
          documents = [d \in Docs |-> IF d = WireDoc
                                       THEN {[NewManagedDocument EXCEPT !.applied = cs]}
                                       ELSE {}]
    /\ chan = [k \in Conns |-> << >>]
    /\ pc = [k \in Conns |-> "idle"]
    /\ cur = [k \in Conns |-> NoFrame]
    /\ session = [k \in Conns |-> NoSession]
    /\ saved = [k \in Conns |-> {}]
    /\ client_info = [k \in Conns |-> {}]
    /\ client_id = [k \in Conns |-> {}]
    /\ todo = [k \in Conns |-> {}]
    /\ nframes = 0
    /\ inbox = [k \in Conns |-> << >>]
    /\ wire = [k \in Conns |-> << >>]
    /\ send_task = [k \in Conns |-> "running"]
    /\ store = [d \in Docs |-> NoReplica]
    /\ minted = 0
    /\ made = [d \in Docs |-> {}]
    /\ removes = [d \in Docs |-> 0]
    /\ got = [t \in Callers |-> NoCall]
    /\ calls = 0
    /\ \E cs \in Replicas : cdoc = [applied |-> cs, queue |-> {}]
    /\ cstate = NewSyncState
    /\ awaiting = "no"
    /\ synced = "none"
    /\ InitLocks
    /\ InitCanvas

\* The client's next sync_request: the message its engine generates, or,
\* when the engine has nothing to say, a message with its heads alone (the
\* client keeps exchanging).
ClientRequest ==
    LET g == EngineGenerate(cdoc, cstate)
    IN  [st |-> g.st,
         frame |-> Frame("sync_request", WireDoc, OwnId(Syncer),
                         B64Encode(IF g.msg # {} THEN The(g.msg)
                                   ELSE SyncBytes(HeadsOf(cdoc.applied), {}, FALSE)))]

\* The client sends a sync_request and the server reads it.
ClientSends ==
    /\ awaiting = "no"
    /\ SyncDecode(Syncer, ClientRequest.frame)
    /\ cstate' = ClientRequest.st
    /\ awaiting' = "sent"
    /\ UNCHANGED <<cdoc, synced, asideClient>>

\* The server handles the request.
ServerAnswers == SyncProcess(Syncer) /\ UNCHANGED aside

\* The send task has forwarded the SyncResponse; the client reads it and
\* hands its sync message, if there is one, to its engine.
ClientReceives ==
    /\ awaiting # "no"
    /\ pc[Syncer] = "idle"
    /\ chan' = [chan EXCEPT ![Syncer] = Tail(@)]
    /\ LET m == Head(chan[Syncer])
       IN  /\ m.type = "sync_response"
           /\ synced' = IF awaiting = "overtaken" THEN "stale"
                        ELSE IF m.is_complete THEN "complete" ELSE "more"
           /\ IF m.sync_message = {}
              THEN UNCHANGED <<cdoc, cstate>>
              ELSE LET r == EngineReceive(cdoc, cstate, B64Decode(The(m.sync_message)))
                   IN  /\ cdoc' = r.doc
                       /\ cstate' = r.st
    /\ awaiting' = "no"
    /\ UNCHANGED <<sessions, sess, documents, pc, cur, session, saved, client_info,
                   client_id, todo, nframes, asideClient>>

\* A change arrives: what the client has synced so far says nothing about
\* it, and the frames are counted from here.
Overtakes ==
    /\ awaiting' = IF awaiting = "no" THEN "no" ELSE "overtaken"
    /\ synced' = "none"
    /\ nframes' = 0

\* Another connection's Change reaches the server's replica (handle_change,
\* under the document's write lock).
ServerGains(x) ==
    /\ x \notin The(documents[WireDoc]).applied \cup The(documents[WireDoc]).queue
    /\ documents' = [documents EXCEPT ![WireDoc] =
                         {apply_change(The(@), ChangeBytes(x))}]
    /\ Overtakes
    /\ UNCHANGED <<sessions, sess, chan, pc, cur, session, saved, client_info, client_id,
                   todo, cdoc, cstate, asideClient>>

\* The client makes a change on top of what its replica holds.
ClientGains(x) ==
    /\ x \notin cdoc.applied
    /\ Deps(x) \subseteq cdoc.applied
    /\ cdoc' = ApplyChanges(cdoc, {x})
    /\ Overtakes
    /\ UNCHANGED <<sessions, sess, documents, chan, pc, cur, session, saved, client_info,
                   client_id, todo, cstate, asideClient>>

Exchange == ClientSends \/ ServerAnswers \/ ClientReceives

NextSync ==
    \/ Exchange
    \/ \E x \in Changes : ServerGains(x) \/ ClientGains(x)

\* The server's tasks are scheduled and the client keeps exchanging; nothing
\* makes a change arrive.
SpecSync == InitSync /\ [][NextSync]_vars /\ WF_vars(Exchange)

\* -------------------------------------------------------- the scene graph
SceneCalled(op, id, parent) ==
    /\ scene_calls < MaxOps
    /\ scene_calls' = scene_calls + 1
    /\ scene_call' = [op |-> op, id |-> id, parent |-> parent]

\* scene.add_node(id, parent). A new key takes a place in the HashMap that
\* its hash decides: any place among the keys that are there.
AddNode(id, parent) ==
    /\ SceneCalled("add_node", id, parent)
    /\ LET g == add_node([nodes |-> nodes, roots |-> roots], id, parent)
       IN  /\ nodes' = g.nodes
           /\ roots' = g.roots
    /\ IF nodes[id] # {}
       THEN UNCHANGED <<slots, inserted>>
       ELSE /\ inserted' = Append(inserted, id)
            /\ \E k \in 0..Len(slots) :
                   slots' = SubSeq(slots, 1, k) \o <<id>> \o SubSeq(slots, k + 1, Len(slots))

\* scene.get_node_mut(id): the caller sets the node's local transform and
\* marks the node dirty.
SetLocalTransform(id, t) ==
    /\ nodes[id] # {}
    /\ SceneCalled("local_transform", id, {})
    /\ nodes' = [nodes EXCEPT ![id] = {[The(@) EXCEPT !.local_transform = t,
                                                       !.dirty = TRUE]}]
    /\ UNCHANGED <<roots, slots, inserted>>

\* scene.update_transforms()
UpdateTransforms ==
    /\ SceneCalled("update_transforms", "", {})
    /\ nodes' = update_transforms([nodes |-> nodes, roots |-> roots]).nodes
    /\ UNCHANGED <<roots, slots, inserted>>

serverVars == <<sessions, sess, documents, chan, pc, cur, session, saved, client_info,
                client_id, todo, nframes, wireVars, storeVars, clientVars, lockVars>>
asideLocks == <<sessions, sess, documents, chan, pc, cur, session, saved, client_info,
                client_id, todo, nframes, wireVars, storeVars, clientVars, canvasVars>>
asideScene == <<serverVars, hierVars, zVars, docVars, queryVars, cameraVars, toolVars, renderVars>>
asideHier == <<serverVars, sceneVars, zVars, docVars, queryVars, cameraVars, toolVars, renderVars>>
asideZ == <<serverVars, sceneVars, hierVars, docVars, queryVars, cameraVars, toolVars, renderVars>>
asideDoc == <<serverVars, sceneVars, hierVars, zVars, queryVars, cameraVars, toolVars, renderVars>>
asideQuery == <<serverVars, zVars, docVars, cameraVars, toolVars, renderVars>>
asideGraph == <<serverVars, hierVars, zVars, docVars, queryVars, cameraVars, toolVars, renderVars>>
asideCamera == <<serverVars, sceneVars, hierVars, zVars, docVars, queryVars, toolVars, renderVars>>
asideTool == <<serverVars, hierVars, zVars, docVars, queryVars, renderVars>>
asideRender == <<serverVars, sceneVars, zVars, docVars, queryVars, cameraVars, toolVars>>

NextScene ==
    \/ \E id \in ObjectIds :
          \/ \E parent \in {{}} \cup {{q} : q \in ObjectIds} :
                AddNode(id, parent) /\ UNCHANGED asideScene
          \/ \E t \in Locals : SetLocalTransform(id, t) /\ UNCHANGED asideScene
    \/ UpdateTransforms /\ UNCHANGED asideScene

SpecScene == Init /\ [][NextScene]_vars

\* ------------------------------------------------------- the hierarchy
HierCalled(op, child, parent) ==
    /\ hier_calls < MaxHierOps
    /\ hier_calls' = hier_calls + 1
    /\ hier_call' = [op |-> op, child |-> child, parent |-> parent]

\* spawn_object: the next entity, with the object's transform.
SpawnObject(e, base, renderable) ==
    /\ world[e] = {}
    /\ \A i \in 1..Len(EntityOrder) :
          EntityOrder[i] = e => \A j \in 1..(i - 1) : world[EntityOrder[j]] # {}
    /\ world' = [world EXCEPT ![e] = {Spawned(base, renderable)}]
    /\ hier_call' = [op |-> "spawn_object", child |-> e, parent |-> {}]
    /\ UNCHANGED hier_calls

\* set_parent(world, child, parent), on entities that are there
SetParent(child, parent) ==
    /\ world[child] # {} /\ world[parent] # {}
    /\ HierCalled("set_parent", child, {parent})
    /\ world' = set_parent(world, child, parent)

\* remove_parent(world, child)
RemoveParent(child) ==
    /\ world[child] # {}
    /\ HierCalled("remove_parent", child, {})
    /\ world' = remove_parent(world, child)

\* The caller sets an entity's local transform and calls
\* mark_transform_dirty, which returns when get_descendants does.
SetLocal(e, t) ==
    /\ world[e] # {}
    /\ DescendantsReturn(world, e)
    /\ HierCalled("mark_transform_dirty", e, {})
    /\ world' = mark_transform_dirty(
                    [world EXCEPT ![e] = {[The(@) EXCEPT !.transform.local = t]}], e)

\* propagate_transforms(world)
PropagateTransforms ==
    /\ HierCalled("propagate_transforms", "", {})
    /\ world' = propagate_transforms(world)

\* reparent_preserve_world(world, child, new_parent)
ReparentPreserveWorld(child, new_parent) ==
    /\ world[child] # {}
    /\ \A p \in new_parent : world[p] # {}
    /\ HierCalled("reparent_preserve_world", child, new_parent)
    /\ world' = reparent_preserve_world(world, child, new_parent)

NextHier ==
    \/ \E e \in Entities :
          \/ \E renderable \in BOOLEAN :
                SpawnObject(e, BaseObjectProperties(ObjectOf[e], BaseTransform), renderable)
                    /\ UNCHANGED asideHier
          \/ \E parent \in Entities : SetParent(e, parent) /\ UNCHANGED asideHier
          \/ RemoveParent(e) /\ UNCHANGED asideHier
          \/ \E t \in Locals : SetLocal(e, t) /\ UNCHANGED asideHier
          \/ \E new_parent \in {{}} \cup {{q} : q \in Entities} :
                ReparentPreserveWorld(e, new_parent) /\ UNCHANGED asideHier
    \/ PropagateTransforms /\ UNCHANGED asideHier

SpecHier == Init /\ [][NextHier]_vars

\* ------------------------------------------------------ z-index calls
\* A caller asks for an index between `before` and `after`, either of which
\* may be absent.
GenerateZ(before, after, by) ==
    /\ z_index = {}
    /\ z_before' = before
    /\ z_after' = after
    /\ z_index' = {[by |-> by,
                    index |-> IF by = "utils"
                              THEN generate_z_index_between(before, after)
                              ELSE contract_generate_z_index_between(before, after)]}

NextZ ==
    \E before, after \in {{}} \cup {{z} : z \in ZIndexes} :
        \/ GenerateZ(before, after, "utils") /\ UNCHANGED asideZ
        \/ GenerateZ(before, after, "contract") /\ UNCHANGED asideZ

SpecZ == Init /\ [][NextZ]_vars

\* ------------------------------------------------- CanvasDocument calls
AddObject(object) ==
    /\ canvas_calls < MaxDocCalls
    /\ canvas_calls' = canvas_calls + 1
    /\ canvas' = add_object(canvas, object)

RemoveObject(id) ==
    /\ canvas_calls < MaxDocCalls
    /\ canvas_calls' = canvas_calls + 1
    /\ canvas' = remove_object(canvas, id)

NextDoc ==
    \/ \E object \in CanvasObjects : AddObject(object) /\ UNCHANGED asideDoc
    \/ \E id \in ObjectIds : RemoveObject(id) /\ UNCHANGED asideDoc

SpecDoc == Init /\ [][NextDoc]_vars

\* -------------------------------------------- render order and hit tests
\* The z-indices ("A" and the default "Zz"), boxes and points of the calls.
ZValues == {<<65>>, <<90, 122>>}
Boxes == {BoundingBoxDefault, BoundingBox(1, 1)}
Points == {0, 1}
Bases(id) ==
    {[BaseObjectProperties(id, IDENTITY) EXCEPT !.z_index = z, !.visible = v, !.locked = l] :
        z \in ZValues, v \in BOOLEAN, l \in BOOLEAN}

\* A call that changes the scene or the store: the answers given before
\* it are answers about another scene.
QueryCalled ==
    /\ query_calls < MaxQueryOps
    /\ query_calls' = query_calls + 1
    /\ render_order' = {}
    /\ hit' = NoHit

\* scene.get_node_mut(id): the caller sets the node's z_index.
SetZIndex(id, z) ==
    /\ nodes[id] # {}
    /\ SceneCalled("z_index", id, {})
    /\ nodes' = [nodes EXCEPT ![id] = {[The(@) EXCEPT !.z_index = z]}]
    /\ UNCHANGED <<roots, slots, inserted>>

\* scene.get_node_mut(id): the caller shows or hides the node.
SetVisible(id, visible) ==
    /\ nodes[id] # {}
    /\ SceneCalled("visible", id, {})
    /\ nodes' = [nodes EXCEPT ![id] = {[The(@) EXCEPT !.visible = visible]}]
    /\ UNCHANGED <<roots, slots, inserted>>

\* scene.get_node_mut(id): the caller sets the node's local bounds and marks
\* the node dirty.
SetLocalBounds(id, box) ==
    /\ nodes[id] # {}
    /\ SceneCalled("local_bounds", id, {})
    /\ nodes' = [nodes EXCEPT ![id] = {[The(@) EXCEPT !.local_bounds = box,
                                                       !.dirty = TRUE]}]
    /\ UNCHANGED <<roots, slots, inserted>>

\* scene.get_render_order()
GetRenderOrder ==
    /\ render_order' = {get_render_order(nodes, slots)}
    /\ UNCHANGED <<hit, sceneVars, hierVars>>

\* scene.hit_test(point)
HitTest(point) ==
    /\ hit' = [by |-> "scene", point |-> point, found |-> hit_test(nodes, slots, point)]
    /\ UNCHANGED <<render_order, sceneVars, hierVars>>

\* world.entity_mut(e).insert(WorldBounds { .. })
InsertWorldBounds(e, box) ==
    /\ world[e] # {}
    /\ world' = [world EXCEPT ![e] = {[The(@) EXCEPT !.world_bounds = {box}]}]
    /\ hier_call' = [op |-> "insert", child |-> e, parent |-> {}]
    /\ UNCHANGED hier_calls

\* ecs::systems::hit_test(world, x, y)
SystemsHitTest(x) ==
    /\ \E found \in (IF systems_hit_test(world, x) = {} THEN {{}}
                     ELSE {{e} : e \in systems_hit_test(world, x)}) :
          hit' = [by |-> "world", point |-> x, found |-> found]
    /\ UNCHANGED <<render_order, sceneVars, hierVars>>

\* The ids and entities of the scenes queried.
QueryIds == {"o1", "o2"}
QueryEntities == {"e1", "e2"}

NextQuery ==
    \/ \E id \in QueryIds :
          \/ QueryCalled /\ AddNode(id, {})
                /\ UNCHANGED hierVars /\ UNCHANGED asideQuery
          \/ \E z \in ZValues : QueryCalled /\ SetZIndex(id, z)
                /\ UNCHANGED hierVars /\ UNCHANGED asideQuery
          \/ \E v \in BOOLEAN : QueryCalled /\ SetVisible(id, v)
                /\ UNCHANGED hierVars /\ UNCHANGED asideQuery
          \/ \E box \in Boxes : QueryCalled /\ SetLocalBounds(id, box)
                /\ UNCHANGED hierVars /\ UNCHANGED asideQuery
    \/ QueryCalled /\ UpdateTransforms
          /\ UNCHANGED hierVars /\ UNCHANGED asideQuery
    \/ GetRenderOrder /\ UNCHANGED query_calls /\ UNCHANGED asideQuery
    \/ \E point \in Points : HitTest(point) /\ UNCHANGED query_calls /\ UNCHANGED asideQuery
    \/ \E e \in QueryEntities :
          \/ \E base \in Bases(ObjectOf[e]), renderable \in BOOLEAN :
                QueryCalled /\ SpawnObject(e, base, renderable)
                   /\ UNCHANGED sceneVars /\ UNCHANGED asideQuery
          \/ \E box \in Boxes : QueryCalled /\ InsertWorldBounds(e, box)
                /\ UNCHANGED sceneVars /\ UNCHANGED asideQuery
    \/ \E x \in Points : SystemsHitTest(x) /\ UNCHANGED query_calls /\ UNCHANGED asideQuery

SpecQuery == Init /\ [][NextQuery]_vars

\* ---------------------------------------------------------- camera calls
\* The options an engine is made with: the default ones, and limits of the
\* host's choosing (0.5 and 512).
Options == {EngineOptionsDefault, [min_zoom |-> 50, max_zoom |-> Fixed(512)]}
\* The zooms asked for (0, 0.01, 0.25, 1, 256, 300, 600), the factors (0.5,
\* 0.9, 1.1, 300), the screen points and the pans.
Zooms == {0, 1, 25, Fixed(1), Fixed(256), Fixed(300), Fixed(600)}
Factors == {50, 90, 110, Fixed(300)}
ScreenPoints == {Point(Fixed(400), Fixed(300)), Point(Fixed(401), Fixed(299))}
Pans == {Point(0, 0), Point(Fixed(10), Fixed(-10))}

CameraCalled(op, zoom) ==
    /\ camera_calls < MaxCameraOps
    /\ camera_calls' = camera_calls + 1
    /\ camera_call' = [op |-> op, zoom |-> zoom]

\* CanvasEngine::new(options)
NewEngine(opts) ==
    /\ camera_calls = 0
    /\ camera_call.op = "none"
    /\ camera_call' = [op |-> "new", zoom |-> 0]
    /\ options' = opts
    /\ camera' = CameraDefault
    /\ needs_render' = TRUE
    /\ UNCHANGED camera_calls

\* CanvasEngine::set_camera
SetCamera(x, y, zoom) ==
    /\ CameraCalled("set_camera", zoom)
    /\ camera' = [camera EXCEPT !.x = x, !.y = y,
                                !.zoom = clamp(zoom, options.min_zoom, options.max_zoom)]
    /\ needs_render' = TRUE
    /\ UNCHANGED options

\* CanvasEngine::pan_by
PanBy(dx, dy) ==
    /\ CameraCalled("pan_by", camera.zoom)
    /\ camera' = pan_by(camera, dx, dy)
    /\ needs_render' = TRUE
    /\ UNCHANGED options

\* CanvasEngine::zoom_to
ZoomTo(zoom, center_x, center_y) ==
    /\ CameraCalled("zoom_to", zoom)
    /\ camera' = zoom_to(camera, zoom, center_x, center_y)
    /\ needs_render' = TRUE
    /\ UNCHANGED options

\* Camera::zoom_by, on the engine's camera (the Pan tool's wheel calls it)
ZoomBy(factor, screen_x, screen_y) ==
    /\ CameraCalled("zoom_by", FMul(camera.zoom, factor))
    /\ camera' = zoom_by(camera, factor, screen_x, screen_y)
    /\ UNCHANGED <<options, needs_render>>

NextCamera ==
    \/ \E opts \in Options : NewEngine(opts) /\ UNCHANGED asideCamera
    \/ \E zoom \in Zooms, p \in Pans : SetCamera(p.x, p.y, zoom) /\ UNCHANGED asideCamera
    \/ \E p \in Pans : PanBy(p.x, p.y) /\ UNCHANGED asideCamera
    \/ \E zoom \in Zooms, p \in ScreenPoints : ZoomTo(zoom, p.x, p.y) /\ UNCHANGED asideCamera
    \/ \E factor \in Factors, p \in ScreenPoints :
          ZoomBy(factor, p.x, p.y) /\ UNCHANGED asideCamera

SpecCamera == Init /\ [][NextCamera]_vars

\* ------------------------------------------------------------ tool calls
\* The events of the host: pointers at two places, three buttons, wheels.
Places == {[canvas |-> Point(0, 0), screen |-> Point(Fixed(400), Fixed(300))],
           [canvas |-> Point(1, 1), screen |-> Point(Fixed(401), Fixed(299))]}
Buttons == {0, 1, 2}
Deltas == {Point(0, 0), Point(0, Fixed(1)), Point(Fixed(1), Fixed(-1))}
InputEvents ==
    {PointerDown(p.canvas, p.screen, b) : p \in Places, b \in Buttons}
    \cup {PointerMove(p.canvas, p.screen) : p \in Places}
    \cup {PointerUp(p.canvas, p.screen) : p \in Places}
    \cup {Wheel(d, Point(Fixed(401), Fixed(299)), c) : d \in Deltas, c \in BOOLEAN}
    \cup {KeyDown}

ToolCalled(op, tool, event, consumed) ==
    /\ tool_calls < MaxToolOps
    /\ tool_calls' = tool_calls + 1
    /\ tool_call' = [op |-> op, tool |-> tool, event |-> event, consumed |-> consumed,
                     before |-> tool_manager]

\* CanvasEngine::set_tool
SetTool(tool) ==
    /\ ToolCalled("set_tool", tool, KeyDown, FALSE)
    /\ tool_manager' = set_tool(tool_manager, tool)
    /\ events' = << >>
    /\ UNCHANGED <<selection, cameraVars, sceneVars>>

\* CanvasEngine::handle_event
HandleEvent(event) ==
    \E r \in {handle_event(tool_manager, event, camera, nodes, slots, selection)} :
        /\ ToolCalled("handle_event", tool_manager.current_tool, event, r.consumed)
        /\ tool_manager' = r.tools
        /\ camera' = r.camera
        /\ selection' = r.selection
        /\ needs_render' = (r.consumed \/ needs_render)
        /\ events' = Append(events, [type |-> event.type, button |-> event.button])
        /\ UNCHANGED <<options, camera_call, camera_calls, sceneVars>>

\* The scene the events are handled on gets a node.
SceneGetsNode(id) ==
    /\ nodes[id] = {}
    /\ AddNode(id, {})
    /\ UNCHANGED <<toolVars, cameraVars>>

NextTool ==
    \/ \E tool \in ToolTypes : SetTool(tool) /\ UNCHANGED asideTool
    \/ \E event \in InputEvents : HandleEvent(event) /\ UNCHANGED asideTool
    \/ \E id \in {"o1"} : SceneGetsNode(id) /\ UNCHANGED asideTool

SpecTool == Init /\ [][NextTool]_vars

\* ------------------------------------------------ scene nodes come and go
\* scene.remove_node(id); the keys removed leave the HashMap.
RemoveNode(id) ==
    /\ SceneCalled("remove_node", id, {})
    /\ LET g == remove_node([nodes |-> nodes, roots |-> roots], id)
       IN  /\ nodes' = g.nodes
           /\ roots' = g.roots
           /\ slots' = SelectSeq(slots, LAMBDA k : g.nodes[k] # {})
           /\ inserted' = SelectSeq(inserted, LAMBDA k : g.nodes[k] # {})

NextGraph ==
    \E id \in ObjectIds :
        \/ \E parent \in {{}} \cup {{q} : q \in ObjectIds} :
              AddNode(id, parent) /\ UNCHANGED asideGraph
        \/ RemoveNode(id) /\ UNCHANGED asideGraph

SpecGraph == Init /\ [][NextGraph]_vars


\* ------------------------------------------------------ changes and joins
\* Clients that join one document and send it the changes x1, x2 (made
\* side by side) and x3 (made on top of both), each under its own client id.
EditFrames(k) ==
    {Frame("change", WireDoc, OwnId(k), B64Encode(ChangeBytes(x))) : x \in Changes}
HandleEdits(k) ==
    \/ (\E f \in PresenceOf(k, JoinFrames) : JoinGetSession(k, f)) /\ UNCHANGED aside
    \/ JoinGetDocument(k) /\ UNCHANGED aside
    \/ JoinReadState(k) /\ UNCHANGED aside
    \/ JoinAddClient(k) /\ UNCHANGED aside
    \/ JoinClientInfo(k) /\ UNCHANGED aside
    \/ JoinBroadcast(k) /\ UNCHANGED aside
    \/ (\E f \in EditFrames(k) : ChangeDecode(k, f)) /\ UNCHANGED aside
    \/ ChangeApply(k) /\ UNCHANGED aside
    \/ ChangeGetSession(k) /\ UNCHANGED aside
    \/ ChangeBroadcast(k) /\ UNCHANGED aside

NextEdits == \E k \in Conns : HandleEdits(k)

SpecEdits == Init /\ [][NextEdits]_vars


\* ------------------------------------------------- the handlers' locking
\* The handlers again, one step per critical section: a step runs the
\* section whose lock the task has been granted, drops the guards the code
\* drops there, and suspends the task in the next read().await or
\* write().await. Every frame is about one document and carries the
\* connection's own client id.
At(t, label) == task_pc[t] = label /\ ~task_waits[t]
Go(t, label) ==
    /\ task_pc' = [task_pc EXCEPT ![t] = label]
    /\ task_waits' = [x \in LockTasks |-> suspended(locks', x)]

\* handle_socket reads a frame of the given kind.
Begin(k, frame) ==
    /\ At(k, "idle")
    /\ handlers < MaxHandlers
    /\ handlers' = handlers + 1
    /\ task_frame' = [task_frame EXCEPT ![k] = frame]

\* The handler returns: the session Arc is dropped; the reader goes back to
\* its loop, or to handle_disconnect's.
Finish(k, map, heap) ==
    /\ Go(k, IF task_frame[k] = "close" THEN "disc_next" ELSE "idle")
    /\ task_frame' = [task_frame EXCEPT ![k] = IF @ = "close" THEN @ ELSE "none"]
    /\ task_session' = [task_session EXCEPT ![k] = NoSession]
    /\ mgr_heap' = Collect(heap, map, task_session')

\* handle_join_document: get_or_create_session takes sessions.write().
StartJoin(k) ==
    /\ Begin(k, "join_document")
    /\ locks' = [locks EXCEPT !.sessions = lock_request(@, k, "write")]
    /\ Go(k, "join_sessions")
    /\ UNCHANGED <<task_session, task_todo, mgr_sessions, mgr_heap, mgr_documents>>
\* get_or_create_session; then document_store().get_or_create.
JoinSessions(k) ==
    /\ At(k, "join_sessions")
    /\ LET r == get_or_create_session(mgr_sessions, mgr_heap, WireDoc)
       IN  /\ mgr_sessions' = r.map
           /\ mgr_heap' = r.heap
           /\ task_session' = [task_session EXCEPT ![k] = r.handle]
    /\ locks' = [locks EXCEPT !.sessions = lock_release(@, k),
                              !.documents = lock_request(@, k, "write")]
    /\ Go(k, "join_documents")
    /\ UNCHANGED <<task_frame, task_todo, mgr_documents, handlers>>
\* get_or_create; then managed_doc.write().
JoinDocuments(k) ==
    /\ At(k, "join_documents")
    /\ mgr_documents' = get_or_create(mgr_documents, WireDoc)
    /\ locks' = [locks EXCEPT !.documents = lock_release(@, k),
                              !.replica[WireDoc] = lock_request(@, k, "write")]
    /\ Go(k, "join_replica")
    /\ UNCHANGED <<task_frame, task_session, task_todo, mgr_sessions, mgr_heap, handlers>>
\* (doc_bytes, version); then session.write().
JoinReplica(k) ==
    /\ At(k, "join_replica")
    /\ locks' = [locks EXCEPT !.replica[WireDoc] = lock_release(@, k),
                              !.session[task_session[k]] = lock_request(@, k, "write")]
    /\ Go(k, "join_add")
    /\ UNCHANGED <<task_frame, task_session, task_todo, mgr_sessions, mgr_heap,
                   mgr_documents, handlers>>
\* get_clients, add_client; the JoinAck; then session.read().
JoinAdd(k) ==
    /\ At(k, "join_add")
    /\ mgr_heap' = [mgr_heap EXCEPT ![task_session[k]] =
                       add_client(@, NewClientConnection(OwnId(k), k, k))]
    /\ locks' = [locks EXCEPT !.session[task_session[k]] =
                                  lock_request(lock_release(@, k), k, "read")]
    /\ Go(k, "join_info")
    /\ UNCHANGED <<task_frame, task_session, task_todo, mgr_sessions, mgr_documents, handlers>>
\* get_client; the handler returns when the client is gone, or takes
\* session.read() again.
JoinInfo(k) ==
    /\ At(k, "join_info")
    /\ IF get_client(mgr_heap[task_session[k]], OwnId(k)) = {}
       THEN /\ locks' = [locks EXCEPT !.session[task_session[k]] = lock_release(@, k)]
            /\ Finish(k, mgr_sessions, mgr_heap)
       ELSE /\ locks' = [locks EXCEPT !.session[task_session[k]] =
                                          lock_request(lock_release(@, k), k, "read")]
            /\ Go(k, "join_bcast")
            /\ UNCHANGED <<task_frame, task_session, mgr_heap>>
    /\ UNCHANGED <<task_todo, mgr_sessions, mgr_documents, handlers>>
\* session.broadcast(ClientJoined) under the read guard, which is dropped
\* when the handler returns.
JoinBcast(k) ==
    /\ At(k, "join_bcast")
    /\ locks' = [locks EXCEPT !.session[task_session[k]] = lock_release(@, k)]
    /\ Finish(k, mgr_sessions, mgr_heap)
    /\ UNCHANGED <<task_todo, mgr_sessions, mgr_documents, handlers>>

\* handle_leave_document: get_session takes sessions.read().
StartLeave(k) ==
    /\ Begin(k, "leave_document")
    /\ locks' = [locks EXCEPT !.sessions = lock_request(@, k, "read")]
    /\ Go(k, "leave_sessions")
    /\ UNCHANGED <<task_session, task_todo, mgr_sessions, mgr_heap, mgr_documents>>
\* get_session; without a session the handler returns, with one it takes
\* session.write().
LeaveSessions(k) ==
    /\ At(k, "leave_sessions")
    /\ LET h == get_session(mgr_sessions, WireDoc)
       IN  IF h = NoSession
           THEN /\ locks' = [locks EXCEPT !.sessions = lock_release(@, k)]
                /\ Finish(k, mgr_sessions, mgr_heap)
           ELSE /\ locks' = [locks EXCEPT !.sessions = lock_release(@, k),
                                          !.session[h] = lock_request(@, k, "write")]
                /\ task_session' = [task_session EXCEPT ![k] = h]
                /\ Go(k, "leave_session")
                /\ UNCHANGED <<task_frame, mgr_heap>>
    /\ UNCHANGED <<task_todo, mgr_sessions, mgr_documents, handlers>>
\* The end of handle_leave_document, the session's write guard still held:
\* is_empty(); the guard is dropped, and remove_session takes
\* sessions.write() when the session is empty.
LeaveEnd(k, heap) ==
    IF is_empty(heap[task_session[k]])
    THEN /\ locks' = [locks EXCEPT !.session[task_session[k]] = lock_release(@, k),
                                   !.sessions = lock_request(@, k, "write")]
         /\ mgr_heap' = heap
         /\ Go(k, "leave_remove")
         /\ UNCHANGED <<task_frame, task_session>>
    ELSE /\ locks' = [locks EXCEPT !.session[task_session[k]] = lock_release(@, k)]
         /\ Finish(k, mgr_sessions, heap)
\* remove_client under the write guard; when a client was removed,
\* document_store().get takes documents.read() with the guard held.
LeaveSession(k) ==
    /\ At(k, "leave_session")
    /\ LET s == mgr_heap[task_session[k]]
           heap == [mgr_heap EXCEPT ![task_session[k]] = remove_client(s, OwnId(k))]
       IN  IF s.clients[OwnId(k)] # {}
           THEN /\ mgr_heap' = heap
                /\ locks' = [locks EXCEPT !.documents = lock_request(@, k, "read")]
                /\ Go(k, "leave_documents")
                /\ UNCHANGED <<task_frame, task_session>>
           ELSE LeaveEnd(k, heap)
    /\ UNCHANGED <<task_todo, mgr_sessions, mgr_documents, handlers>>
\* get; with a replica, doc.write() is taken with the session's write guard
\* held.
LeaveDocuments(k) ==
    /\ At(k, "leave_documents")
    /\ IF mgr_documents[WireDoc] # {}
       THEN /\ locks' = [locks EXCEPT !.documents = lock_release(@, k),
                                      !.replica[WireDoc] = lock_request(@, k, "write")]
            /\ Go(k, "leave_replica")
       ELSE /\ locks' = [locks EXCEPT !.documents = lock_release(@, k)]
            /\ Go(k, "leave_bcast")
    /\ UNCHANGED <<task_frame, task_session, task_todo, mgr_sessions, mgr_heap,
                   mgr_documents, handlers>>
\* remove_sync_state
LeaveReplica(k) ==
    /\ At(k, "leave_replica")
    /\ mgr_documents' = [mgr_documents EXCEPT ![WireDoc] = {remove_sync_state(The(@), k)}]
    /\ locks' = [locks EXCEPT !.replica[WireDoc] = lock_release(@, k)]
    /\ Go(k, "leave_bcast")
    /\ UNCHANGED <<task_frame, task_session, task_todo, mgr_sessions, mgr_heap, handlers>>
\* The write guard as a slip would keep it: it is still held when
\* remove_session asks for sessions.write().
LeaveBcastHoldingSession(k) ==
    /\ At(k, "leave_bcast")
    /\ IF is_empty(mgr_heap[task_session[k]])
       THEN /\ locks' = [locks EXCEPT !.sessions = lock_request(@, k, "write")]
            /\ Go(k, "leave_remove")
            /\ UNCHANGED <<task_frame, task_session, mgr_heap>>
       ELSE /\ locks' = [locks EXCEPT !.session[task_session[k]] = lock_release(@, k)]
            /\ Finish(k, mgr_sessions, mgr_heap)
    /\ UNCHANGED <<task_todo, mgr_sessions, mgr_documents, handlers>>
\* session.broadcast(ClientLeft) under the write guard; then the end of the
\* handler.
LeaveBcast(k) ==
    /\ At(k, "leave_bcast")
    /\ LeaveEnd(k, mgr_heap)
    /\ UNCHANGED <<task_todo, mgr_sessions, mgr_documents, handlers>>
\* remove_session; every guard of the handler is gone when it returns.
LeaveRemove(k) ==
    /\ At(k, "leave_remove")
    /\ mgr_sessions' = remove_session(mgr_sessions, WireDoc)
    /\ locks' = [locks EXCEPT !.sessions = lock_release(@, k),
                              !.session[task_session[k]] = lock_release(@, k)]
    /\ Finish(k, mgr_sessions', mgr_heap)
    /\ UNCHANGED <<task_todo, mgr_documents, handlers>>


\* handle_change: get_or_create takes documents.write().
StartChange(k) ==
    /\ Begin(k, "change")
    /\ locks' = [locks EXCEPT !.documents = lock_request(@, k, "write")]
    /\ Go(k, "change_documents")
    /\ UNCHANGED <<task_session, task_todo, mgr_sessions, mgr_heap, mgr_documents>>
ChangeDocuments(k) ==
    /\ At(k, "change_documents")
    /\ mgr_documents' = get_or_create(mgr_documents, WireDoc)
    /\ locks' = [locks EXCEPT !.documents = lock_release(@, k),
                              !.replica[WireDoc] = lock_request(@, k, "write")]
    /\ Go(k, "change_replica")
    /\ UNCHANGED <<task_frame, task_session, task_todo, mgr_sessions, mgr_heap, handlers>>
\* apply_change and get_heads; then get_session takes sessions.read().
ChangeReplica(k) ==
    /\ At(k, "change_replica")
    /\ locks' = [locks EXCEPT !.replica[WireDoc] = lock_release(@, k),
                              !.sessions = lock_request(@, k, "read")]
    /\ Go(k, "change_sessions")
    /\ UNCHANGED <<task_frame, task_session, task_todo, mgr_sessions, mgr_heap,
                   mgr_documents, handlers>>
ChangeSessions(k) ==
    /\ At(k, "change_sessions")
    /\ LET h == get_session(mgr_sessions, WireDoc)
       IN  IF h = NoSession
           THEN /\ locks' = [locks EXCEPT !.sessions = lock_release(@, k)]
                /\ Finish(k, mgr_sessions, mgr_heap)
           ELSE /\ locks' = [locks EXCEPT !.sessions = lock_release(@, k),
                                          !.session[h] = lock_request(@, k, "read")]
                /\ task_session' = [task_session EXCEPT ![k] = h]
                /\ Go(k, "change_bcast")
                /\ UNCHANGED <<task_frame, mgr_heap>>
    /\ UNCHANGED <<task_todo, mgr_sessions, mgr_documents, handlers>>
\* session.broadcast(ChangeBroadcast) under the read guard.
ChangeBcast(k) ==
    /\ At(k, "change_bcast")
    /\ locks' = [locks EXCEPT !.session[task_session[k]] = lock_release(@, k)]
    /\ Finish(k, mgr_sessions, mgr_heap)
    /\ UNCHANGED <<task_todo, mgr_sessions, mgr_documents, handlers>>

\* handle_sync_request: get_or_create, then managed_doc.write().
StartSync(k) ==
    /\ Begin(k, "sync_request")
    /\ locks' = [locks EXCEPT !.documents = lock_request(@, k, "write")]
    /\ Go(k, "sync_documents")
    /\ UNCHANGED <<task_session, task_todo, mgr_sessions, mgr_heap, mgr_documents>>
SyncDocuments(k) ==
    /\ At(k, "sync_documents")
    /\ mgr_documents' = get_or_create(mgr_documents, WireDoc)
    /\ locks' = [locks EXCEPT !.documents = lock_release(@, k),
                              !.replica[WireDoc] = lock_request(@, k, "write")]
    /\ Go(k, "sync_replica")
    /\ UNCHANGED <<task_frame, task_session, task_todo, mgr_sessions, mgr_heap, handlers>>
\* receive_sync_message and generate_sync_message create the sync state.
SyncReplica(k) ==
    /\ At(k, "sync_replica")
    /\ mgr_documents' = [mgr_documents EXCEPT ![WireDoc] = {EnsureSyncState(The(@), k)}]
    /\ locks' = [locks EXCEPT !.replica[WireDoc] = lock_release(@, k)]
    /\ Finish(k, mgr_sessions, mgr_heap)
    /\ UNCHANGED <<task_todo, mgr_sessions, handlers>>

\* handle_cursor_move, handle_selection_update, handle_presence_update:
\* get_session, session.write(), session.read().
StartUpdate(k) ==
    /\ Begin(k, "presence_update")
    /\ locks' = [locks EXCEPT !.sessions = lock_request(@, k, "read")]
    /\ Go(k, "update_sessions")
    /\ UNCHANGED <<task_session, task_todo, mgr_sessions, mgr_heap, mgr_documents>>
UpdateSessions(k) ==
    /\ At(k, "update_sessions")
    /\ LET h == get_session(mgr_sessions, WireDoc)
       IN  IF h = NoSession
           THEN /\ locks' = [locks EXCEPT !.sessions = lock_release(@, k)]
                /\ Finish(k, mgr_sessions, mgr_heap)
           ELSE /\ locks' = [locks EXCEPT !.sessions = lock_release(@, k),
                                          !.session[h] = lock_request(@, k, "write")]
                /\ task_session' = [task_session EXCEPT ![k] = h]
                /\ Go(k, "update_session")
                /\ UNCHANGED <<task_frame, mgr_heap>>
    /\ UNCHANGED <<task_todo, mgr_sessions, mgr_documents, handlers>>
UpdateSession(k) ==
    /\ At(k, "update_session")
    /\ mgr_heap' = [mgr_heap EXCEPT ![task_session[k]] =
                       update_client(@, OwnId(k), "presence_update", "away")]
    /\ locks' = [locks EXCEPT !.session[task_session[k]] =
                                  lock_request(lock_release(@, k), k, "read")]
    /\ Go(k, "update_bcast")
    /\ UNCHANGED <<task_frame, task_session, task_todo, mgr_sessions, mgr_documents, handlers>>
\* The broadcast under the read guard.
UpdateBcast(k) ==
    /\ At(k, "update_bcast")
    /\ locks' = [locks EXCEPT !.session[task_session[k]] = lock_release(@, k)]
    /\ Finish(k, mgr_sessions, mgr_heap)
    /\ UNCHANGED <<task_todo, mgr_sessions, mgr_documents, handlers>>

\* handle_disconnect: active_sessions takes sessions.read().
StartDisconnect(k) ==
    /\ Begin(k, "close")
    /\ locks' = [locks EXCEPT !.sessions = lock_request(@, k, "read")]
    /\ Go(k, "disc_sessions")
    /\ UNCHANGED <<task_session, task_todo, mgr_sessions, mgr_heap, mgr_documents>>
DiscSessions(k) ==
    /\ At(k, "disc_sessions")
    /\ task_todo' = [task_todo EXCEPT ![k] = {d \in Docs : mgr_sessions[d] # NoSession}]
    /\ locks' = [locks EXCEPT !.sessions = lock_release(@, k)]
    /\ Go(k, "disc_next")
    /\ UNCHANGED <<task_frame, task_session, mgr_sessions, mgr_heap, mgr_documents, handlers>>
\* The loop: handle_leave_document for the next session listed, or the end
\* of the connection's task.
DiscNext(k) ==
    /\ At(k, "disc_next")
    /\ IF task_todo[k] = {}
       THEN /\ UNCHANGED <<locks, task_todo>>
            /\ Go(k, "closed")
       ELSE /\ \E d \in task_todo[k] : task_todo' = [task_todo EXCEPT ![k] = @ \ {d}]
            /\ locks' = [locks EXCEPT !.sessions = lock_request(@, k, "read")]
            /\ Go(k, "leave_sessions")
    /\ UNCHANGED <<task_frame, task_session, mgr_sessions, mgr_heap, mgr_documents, handlers>>

\* get_stats: active_sessions takes sessions.read(), and total_clients
\* takes it again.
StartStats ==
    /\ At(Stats, "idle")
    /\ handlers < MaxHandlers
    /\ handlers' = handlers + 1
    /\ locks' = [locks EXCEPT !.sessions = lock_request(@, Stats, "read")]
    /\ Go(Stats, "stats_sessions")
    /\ UNCHANGED <<task_frame, task_session, task_todo, mgr_sessions, mgr_heap, mgr_documents>>
StatsSessions ==
    /\ At(Stats, "stats_sessions")
    /\ locks' = [locks EXCEPT !.sessions = lock_request(lock_release(@, Stats), Stats, "read")]
    /\ Go(Stats, "stats_total")
    /\ UNCHANGED <<task_frame, task_session, task_todo, mgr_sessions, mgr_heap,
                   mgr_documents, handlers>>
\* total_clients: `for session in sessions.values()` under the map's read
\* guard.
StatsTotal ==
    /\ At(Stats, "stats_total")
    /\ task_todo' = [task_todo EXCEPT ![Stats] = {d \in Docs : mgr_sessions[d] # NoSession}]
    /\ UNCHANGED locks
    /\ Go(Stats, "stats_next")
    /\ UNCHANGED <<task_frame, task_session, mgr_sessions, mgr_heap, mgr_documents, handlers>>
\* session.read().await for the next session, the map's read guard held;
\* after the last the guard is dropped.
StatsNext ==
    /\ At(Stats, "stats_next")
    /\ IF task_todo[Stats] = {}
       THEN /\ locks' = [locks EXCEPT !.sessions = lock_release(@, Stats)]
            /\ Go(Stats, "idle")
       ELSE \E d \in task_todo[Stats] :
            /\ locks' = [locks EXCEPT !.session[mgr_sessions[d]] =
                                          lock_request(@, Stats, "read")]
            /\ Go(Stats, "stats_session")
    /\ UNCHANGED <<task_frame, task_session, task_todo, mgr_sessions, mgr_heap,
                   mgr_documents, handlers>>
\* client_count(); the session's guard is a temporary of the statement.
StatsSession ==
    /\ At(Stats, "stats_session")
    /\ \E d \in task_todo[Stats] :
        /\ holds(locks.session[mgr_sessions[d]], Stats)
        /\ locks' = [locks EXCEPT !.session[mgr_sessions[d]] = lock_release(@, Stats)]
        /\ task_todo' = [task_todo EXCEPT ![Stats] = @ \ {d}]
    /\ Go(Stats, "stats_next")
    /\ UNCHANGED <<task_frame, task_session, mgr_sessions, mgr_heap, mgr_documents, handlers>>

\* One step of a task.
TaskStep(t) ==
    \/ t \in Conns /\ StartJoin(t) /\ UNCHANGED asideLocks
    \/ t \in Conns /\ JoinSessions(t) /\ UNCHANGED asideLocks
    \/ t \in Conns /\ JoinDocuments(t) /\ UNCHANGED asideLocks
    \/ t \in Conns /\ JoinReplica(t) /\ UNCHANGED asideLocks
    \/ t \in Conns /\ JoinAdd(t) /\ UNCHANGED asideLocks
    \/ t \in Conns /\ JoinInfo(t) /\ UNCHANGED asideLocks
    \/ t \in Conns /\ JoinBcast(t) /\ UNCHANGED asideLocks
    \/ t \in Conns /\ StartLeave(t) /\ UNCHANGED asideLocks
    \/ t \in Conns /\ LeaveSessions(t) /\ UNCHANGED asideLocks
    \/ t \in Conns /\ LeaveSession(t) /\ UNCHANGED asideLocks
    \/ t \in Conns /\ LeaveDocuments(t) /\ UNCHANGED asideLocks
    \/ t \in Conns /\ LeaveReplica(t) /\ UNCHANGED asideLocks
    \/ t \in Conns /\ LeaveBcast(t) /\ UNCHANGED asideLocks
    \/ t \in Conns /\ LeaveRemove(t) /\ UNCHANGED asideLocks
    \/ t \in Conns /\ StartChange(t) /\ UNCHANGED asideLocks
    \/ t \in Conns /\ ChangeDocuments(t) /\ UNCHANGED asideLocks
    \/ t \in Conns /\ ChangeReplica(t) /\ UNCHANGED asideLocks
    \/ t \in Conns /\ ChangeSessions(t) /\ UNCHANGED asideLocks
    \/ t \in Conns /\ ChangeBcast(t) /\ UNCHANGED asideLocks
    \/ t \in Conns /\ StartSync(t) /\ UNCHANGED asideLocks
    \/ t \in Conns /\ SyncDocuments(t) /\ UNCHANGED asideLocks
    \/ t \in Conns /\ SyncReplica(t) /\ UNCHANGED asideLocks
    \/ t \in Conns /\ StartUpdate(t) /\ UNCHANGED asideLocks
    \/ t \in Conns /\ UpdateSessions(t) /\ UNCHANGED asideLocks
    \/ t \in Conns /\ UpdateSession(t) /\ UNCHANGED asideLocks
    \/ t \in Conns /\ UpdateBcast(t) /\ UNCHANGED asideLocks
    \/ t \in Conns /\ StartDisconnect(t) /\ UNCHANGED asideLocks
    \/ t \in Conns /\ DiscSessions(t) /\ UNCHANGED asideLocks
    \/ t \in Conns /\ DiscNext(t) /\ UNCHANGED asideLocks
    \/ t = Stats /\ StartStats /\ UNCHANGED asideLocks
    \/ t = Stats /\ StatsSessions /\ UNCHANGED asideLocks
    \/ t = Stats /\ StatsTotal /\ UNCHANGED asideLocks
    \/ t = Stats /\ StatsNext /\ UNCHANGED asideLocks
    \/ t = Stats /\ StatsSession /\ UNCHANGED asideLocks
NextLocks == \E t \in LockTasks : TaskStep(t)

SpecLocks == Init /\ [][NextLocks]_vars


\* The runtime polls every task that can run; nothing obliges a client to
\* send a frame.
SpecLocksFair ==
    /\ SpecLocks
    /\ \A t \in LockTasks : WF_vars(task_pc[t] # "idle" /\ TaskStep(t))


\* ------------------------------------------------------------- rendering
\* spawn_object for a shape; the frame built before shows another world.
RenderEntities == {"e1", "e2"}
SpawnShape(e, base, renderable, shape) ==
    /\ SpawnObject(e, base, renderable)
    /\ shape_type' = [shape_type EXCEPT ![e] = {shape}]
    /\ geometry' = NoGeometry
    /\ listed' = << >>
    /\ render_pc' = "idle"
    /\ UNCHANGED emitted

\* Renderer::render builds the frame's geometry; get_render_order is asked
\* for the same world.
RenderFrame ==
    /\ render_pc = "idle"
    /\ geometry' = build_geometry(world, shape_type)
    /\ listed' = systems_get_render_order(world)
    /\ render_pc' = "built"
    /\ UNCHANGED <<shape_type, emitted, hierVars>>

NextRender ==
    \/ \E e \in RenderEntities, renderable \in BOOLEAN, shape \in Shapes :
       \E base \in Bases(ObjectOf[e]) :
          SpawnShape(e, base, renderable, shape) /\ UNCHANGED asideRender
    \/ RenderFrame /\ UNCHANGED asideRender

SpecRender == Init /\ [][NextRender]_vars

\* build_geometry's loop in a frame of many shapes. The loop has gone
\* through `rects` rectangles and `ellipses` ellipses: their vertices are
\* in the list.
Rectangles == {0} \cup ((MaxRectangles - 2)..MaxRectangles)
Ellipses == {0, 1}
EarlierShapes(rects, ellipses) ==
    /\ render_pc = "idle"
    /\ geometry' = [NoGeometry EXCEPT !.vertices = 4 * rects + (SEGMENTS + 1) * ellipses,
                                      !.objects_rendered = rects + ellipses]
    /\ render_pc' = "loop"
    /\ UNCHANGED <<shape_type, listed, emitted, hierVars>>

\* The next turn of the loop. When a u16 sum overflows, a build with
\* overflow checks panics and one without them wraps.
LoopShape(shape) ==
    /\ render_pc = "loop"
    /\ emitted < MaxShapes
    /\ emitted' = emitted + 1
    /\ \/ /\ geometry' = build_shape(geometry, EntityOrder[emitted + 1], shape)
          /\ UNCHANGED render_pc
       \/ /\ overflows(geometry.vertices, shape)
          /\ render_pc' = "panicked"
          /\ UNCHANGED geometry
    /\ UNCHANGED <<shape_type, listed, hierVars>>

NextGeometry ==
    \/ \E rects \in Rectangles, ellipses \in Ellipses :
          EarlierShapes(rects, ellipses) /\ UNCHANGED asideRender
    \/ \E shape \in Shapes : LoopShape(shape) /\ UNCHANGED asideRender

SpecGeometry == Init /\ [][NextGeometry]_vars

\* ================================================================= claims
\* Connection k takes a step that leaves the place `at` of its handler.
Leaves(k, at) == pc[k] = at /\ pc'[k] # at

\* The registrations of session s a broadcast excluding `exclude_client`
\* addresses, and what each outbound channel holds once `message` has been
\* placed on the channel of each of them.
Addressed(s, exclude_client) ==
    {The(s.clients[c]) : c \in {x \in ClientIds : s.clients[x] # {} /\ x \notin exclude_client}}
RECURSIVE Placed(_, _, _)
Placed(ch, regs, message) ==
    IF regs = {} THEN ch
    ELSE LET r == CHOOSE x \in regs : TRUE
         IN  Placed(Send(ch, r.sender, message), regs \ {r}, message)

\* C1: broadcast(message, exclude) places the message on the outbound
\* channel of every client registered in the session whose client id is not
\* the excluded one (of every registered client when nothing is excluded),
\* and on no other channel. Stated for the three broadcasts of the join,
\* change and leave handlers.
C1_BroadcastReachesRegistered ==
    [][\A k \in Conns :
        /\ Leaves(k, "join_bcast") =>
              chan' = Placed(chan, Addressed(sess[session[k]], {cur[k].client_id}),
                             ClientJoined(cur[k].document_id, The(client_info[k])))
        /\ Leaves(k, "change_bcast") =>
              chan' = Placed(chan, Addressed(sess[session[k]], {cur[k].client_id}),
                             ChangeBroadcastMsg(cur[k].document_id, cur[k].client_id,
                                                cur[k].payload, The(saved[k]).version))
        /\ (Leaves(k, "leave_lock") /\ sess[session[k]].clients[cur[k].client_id] # {}) =>
              chan' = Placed(chan,
                             Addressed(remove_client(sess[session[k]], cur[k].client_id), {}),
                             ClientLeft(cur[k].document_id, cur[k].client_id))
    ]_vars

\* C2: when a change frame decodes and is applied, every client registered
\* in the document's session other than the sender gets a ChangeBroadcast
\* with the sender's client id and the frame's own base64 string on its
\* outbound channel, and the sender's channel gets none. Stated at the step
\* that ends the handler of an applied change.
C2_ChangeReachesPeers ==
    [][\A k \in Conns :
        (pc[k] \in {"change_get", "change_bcast"} /\ pc'[k] = "idle") =>
            LET d == cur[k].document_id
                peers == IF sessions[d] = NoSession THEN {}
                         ELSE Addressed(sess[sessions[d]], {cur[k].client_id})
            IN  /\ \A r \in peers : r.sender # k =>
                      /\ Len(chan'[r.sender]) = Len(chan[r.sender]) + 1
                      /\ LET m == chan'[r.sender][Len(chan'[r.sender])]
                         IN  /\ m.type = "change_broadcast"
                             /\ m.source_client_id = cur[k].client_id
                             /\ m.change = cur[k].payload
                /\ (\A r \in peers : r.sender # k) => chan'[k] = chan[k]
    ]_vars

\* C3: when the handler of JoinDocument(d, c) returns, d has a session and a
\* replica, c is registered in d's session with the joining connection's
\* channel and session token, and the handler has placed exactly one JoinAck
\* on the joiner's channel, listing the clients registered in the session
\* just before c was added: under any interleaving with other handlers.
C3_JoinRegisters ==
    [][\A k \in Conns :
        /\ Leaves(k, "join_add") =>
              \E m \in {chan'[k][Len(chan'[k])]} :
                  /\ chan' = Send(chan, k, m)
                  /\ m.type = "join_ack"
                  /\ m.connected_clients = get_clients(sess[session[k]])
        /\ (pc[k] \in {"join_doc", "join_state", "join_info", "join_bcast"} /\ pc'[k] # pc[k])
              => chan'[k] = chan[k]
        /\ (pc[k] \in {"join_info", "join_bcast"} /\ pc'[k] = "idle") =>
              LET d == cur[k].document_id
              IN  /\ sessions'[d] # NoSession
                  /\ documents'[d] # {}
                  /\ \E r \in sess'[sessions'[d]].clients[cur[k].client_id] :
                        r.sender = k /\ r.session_token = k
    ]_vars

\* The sync state a document keeps for a token, and a document's heads; a
\* document that does not exist has neither.
SyncStateAt(docs, d, token) == IF docs[d] = {} THEN {} ELSE The(docs[d]).sync_states[token]
HeadsAt(docs, d) == IF docs[d] = {} THEN {} ELSE get_heads(The(docs[d]))

\* C4: after LeaveDocument(d, c) from a connection, c being registered in
\* d's session: c is no longer registered in that session, the replica of d
\* holds no sync state for the connection's session token, and when no client
\* remains the session is no longer in the SessionManager. "d's session" is
\* the session get_session(d) gave the handler.
C4_LeaveUnregisters ==
    [][\A k \in Conns : cur[k].type = "leave_document" =>
        LET d == cur[k].document_id
            c == cur[k].client_id
        IN  /\ (Leaves(k, "leave_lock") /\ sess[session[k]].clients[c] # {}) =>
                  /\ sess'[session[k]].clients[c] = {}
                  /\ SyncStateAt(documents', d, k) = {}
                  /\ pc'[k] = "idle" => ~is_empty(remove_client(sess[session[k]], c))
            /\ Leaves(k, "leave_rm") =>
                  /\ pc'[k] = "idle"
                  /\ sessions'[d] = NoSession
                  /\ SyncStateAt(documents', d, k) = SyncStateAt(documents, d, k)
    ]_vars

\* A connection joined a document, synced it, and its leave has emptied the
\* session and taken the sync state away.
C4_Witness ==
    \E k \in Conns, d \in Docs :
        /\ pc[k] = "idle"
        /\ sessions[d] = NoSession
        /\ documents[d] # {}
        /\ SyncStateAt(documents, d, k) = {}
        /\ \E i, j \in 1..Len(chan[k]) :
              /\ chan[k][i].type = "join_ack" /\ chan[k][i].document_id = d
              /\ chan[k][j].type = "sync_response" /\ chan[k][j].document_id = d

\* C5: once a connection's socket has closed and its cleanup has finished,
\* no replica holds a sync state keyed by the connection's session token,
\* whatever frames the connection sent before.
C5_ClosedLeavesNoSyncState ==
    \A k \in Conns : pc[k] = "closed" =>
        \A d \in Docs : SyncStateAt(documents, d, k) = {}

\* C6: once a connection has ended and its cleanup has finished, no session
\* holds a registration made by that connection, whatever join frames it
\* sent.
C6_ClosedLeavesNoRegistration ==
    \A k \in Conns : pc[k] = "closed" =>
        \A i \in SessIds, c \in ClientIds :
            \A r \in sess[i].clients[c] : r.session_token # k

\* C7: every SyncResponse has is_complete = true exactly when
\* generate_sync_message for the requester's token returned nothing, that
\* is, exactly when its sync_message is absent.
C7_CompleteIffNothingToSend ==
    [][\A k \in Conns :
        /\ \A i \in 1..Len(chan'[k]) :
              chan'[k][i].type = "sync_response" =>
                  (chan'[k][i].is_complete <=> chan'[k][i].sync_message = {})
        /\ (Leaves(k, "sync_doc") /\ chan'[k][Len(chan'[k])].type = "sync_response") =>
              LET d == cur[k].document_id
                  r == receive_sync_message(The(documents[d]), k, B64Decode(cur[k].payload))
              IN  chan'[k][Len(chan'[k])].is_complete
                      <=> generate_sync_message(r.doc, k).msg = {}
    ]_vars

\* One connection has got a SyncResponse that is complete and one that is not.
C7_Witness ==
    \E k \in Conns : \E i, j \in 1..Len(chan[k]) :
        /\ chan[k][i].type = "sync_response" /\ chan[k][i].is_complete
        /\ chan[k][j].type = "sync_response" /\ ~chan[k][j].is_complete
        /\ chan[k][j].sync_message # {}

\* C8: each SyncRequest puts exactly one message on the requester's channel
\* and none on any other: an Error with code SyncError and the request's
\* document id when the payload is no base64, no sync message, or rejected
\* by the replica, and a SyncResponse otherwise; the connection then goes
\* on reading frames.
C8_SyncAnswersOnce ==
    [][\A k \in Conns :
        /\ \A f \in SyncFrames : SyncDecode(k, f) =>
              IF ~B64Ok(f.payload) \/ ~SyncDecodeOk(B64Decode(f.payload))
              THEN /\ chan' = Send(chan, k, ErrorMsg("SYNC_ERROR", f.document_id))
                   /\ pc'[k] = "idle"
              ELSE chan' = chan /\ pc'[k] = "sync_doc"
        /\ Leaves(k, "sync_doc") =>
              /\ pc'[k] = "idle"
              /\ IF B64Decode(cur[k].payload).corrupt
                 THEN chan' = Send(chan, k, ErrorMsg("SYNC_ERROR", cur[k].document_id))
                 ELSE \E m \in {chan'[k][Len(chan'[k])]} :
                         /\ chan' = Send(chan, k, m)
                         /\ m.type = "sync_response"
                         /\ m.document_id = cur[k].document_id
    ]_vars

\* A connection was answered an Error and, for a later frame, a SyncResponse.
C8_Witness ==
    \E k \in Conns :
        /\ Len(chan[k]) >= 2
        /\ chan[k][1].type = "error" /\ chan[k][1].code = "SYNC_ERROR"
        /\ chan[k][2].type = "sync_response"

\* C9: a change whose payload is no base64 or is rejected by the replica
\* puts no message on any channel and leaves the heads of the replica,
\* every session registration and every sync state as they were.
Untouched ==
    /\ chan' = chan
    /\ sess' = sess
    /\ sessions' = sessions
    /\ \A d \in Docs :
          /\ HeadsAt(documents', d) = HeadsAt(documents, d)
          /\ \A t \in Conns : SyncStateAt(documents', d, t) = SyncStateAt(documents, d, t)
C9_BadChangeIsDropped ==
    [][\A k \in Conns :
        /\ \A f \in ChangeFrames :
              (ChangeDecode(k, f) /\ (~B64Ok(f.payload) \/ ~LoadOk(B64Decode(f.payload))))
                  => Untouched /\ (~B64Ok(f.payload) => pc'[k] = "idle")
        /\ (Leaves(k, "change_apply") /\ ~LoadOk(B64Decode(cur[k].payload)))
              => Untouched /\ pc'[k] = "idle"
    ]_vars

\* A replica that only a rejected change has touched, beside a session with a
\* registered client: the handlers are back in their loops, the replica
\* is empty, and nobody was sent anything but the JoinAck of the other
\* document.
C9_Witness ==
    \E d, e \in Docs :
        /\ d # e
        /\ documents[d] # {} /\ The(documents[d]).applied = {}
        /\ sessions[d] = NoSession
        /\ sessions[e] # NoSession /\ ~is_empty(sess[sessions[e]])
        /\ \A k \in Conns :
              /\ pc[k] = "idle"
              /\ \A i \in 1..Len(chan[k]) :
                    chan[k][i].type = "join_ack" /\ chan[k][i].document_id = e

\* C10: when every frame read has been handled, active_sessions() lists
\* exactly the documents that have a registered client, and total_clients()
\* is the number of registered clients over all sessions; a document whose
\* last client has left is not listed.
RECURSIVE CountClients(_)
CountClients(ids) ==
    IF ids = {} THEN 0
    ELSE LET i == CHOOSE x \in ids : TRUE
         IN  client_count(sess[i]) + CountClients(ids \ {i})
C11_RejoinReplaces ==
    [][\A k \in Conns :
        (/\ Leaves(k, "join_add")
         /\ \E r \in sess[session[k]].clients[cur[k].client_id] : r.session_token = k) =>
            /\ client_count(sess'[session[k]]) = client_count(sess[session[k]])
            /\ Cardinality(sess'[session[k]].clients[cur[k].client_id]) = 1
            /\ \E m \in {chan'[k][Len(chan'[k])]} :
                  /\ chan' = Send(chan, k, m)
                  /\ m.type = "join_ack"
                  /\ m.document_id = cur[k].document_id
                  /\ m.client_id = cur[k].client_id
    ]_vars

\* A connection joined a document twice under one client id: it holds two
\* JoinAcks for it and the session has that one client.
C11_Witness ==
    \E k \in Conns, d \in Docs, c \in ClientIds :
        /\ pc[k] = "idle"
        /\ sessions[d] # NoSession
        /\ client_count(sess[sessions[d]]) = 1
        /\ \E r \in sess[sessions[d]].clients[c] : r.session_token = k
        /\ Len(chan[k]) = 2
        /\ \A i \in 1..2 : /\ chan[k][i].type = "join_ack"
                            /\ chan[k][i].document_id = d
                            /\ chan[k][i].client_id = c

\* C12: for every connection, the messages written to the socket are, in
\* order, the messages placed on its outbound channel (the send task writes
\* them oldest first and skips none), and its inbound frames are handled one
\* at a time in arrival order: the reader takes a frame only when no handler
\* of the connection is running, and the frame it takes is the oldest one
\* not yet read.
C12_FifoBothWays ==
    /\ [](\A k \in Conns :
            /\ Len(wire[k]) <= Len(chan[k])
            /\ wire[k] = SubSeq(chan[k], 1, Len(wire[k])))
    /\ [][\A k \in Conns :
            (inbox'[k] # inbox[k] /\ Len(inbox'[k]) <= Len(inbox[k])) =>
                /\ pc[k] = "idle"
                /\ inbox'[k] = Tail(inbox[k])
                /\ pc'[k] \notin {"idle", "closed"} =>
                      \/ cur'[k] = Head(inbox[k])
                      \/ Head(inbox[k]) = CloseFrame /\ cur'[k].type = "close"
       ]_vars

\* A connection's JoinAck and the answer to its sync request are on the
\* socket, in that order, while a third frame of the connection waits.
C12_Witness ==
    \E k \in Conns :
        /\ pc[k] = "idle"
        /\ inbox[k] # << >>
        /\ Len(wire[k]) = 2
        /\ wire[k][1].type = "join_ack"
        /\ wire[k][2].type = "sync_response"

\* C13: when the handling of a message panics in a connection's task, only
\* that connection ends, and the disconnect cleanup runs for it all the
\* same: no session keeps a registration made by the connection.
C13_PanicCleansUp ==
    \A k \in Conns : pc[k] = "panicked" =>
        \A i \in SessIds, c \in ClientIds :
            \A r \in sess[i].clients[c] : r.session_token # k

\* C14: however concurrent get_or_create(id) calls interleave, the callers
\* between two remove(id) calls obtain the same replica, and one replica is
\* created for id in that time; a second remove(id) leaves the store as the
\* first left it.
C14_StoreIdempotent ==
    /\ [](\A t, u \in Callers :
            (got[t] # NoCall /\ got[u].document_id = got[t].document_id
                /\ got[u].removes = got[t].removes) =>
                /\ got[u].replica = got[t].replica
                /\ got[t].removes = removes[got[t].document_id] =>
                      /\ made[got[t].document_id] = {got[t].replica}
                      /\ store[got[t].document_id] = got[t].replica)
    /\ [][\A d \in Docs : removes'[d] # removes[d] =>
            /\ store'[d] = NoReplica
            /\ store_remove(store', d) = store'
            /\ \A e \in Docs \ {d} : store'[e] = store[e]
       ]_vars

\* After a remove of a document whose replica had been handed out, two
\* callers have got the same, second replica for it.
C14_Witness ==
    \E t, u \in Callers, d \in Docs :
        /\ t # u
        /\ got[t] = [document_id |-> d, replica |-> 2, removes |-> 1]
        /\ got[u] = got[t]
        /\ store[d] = 2
        /\ minted = 2

\* What a frame of the three kinds sets in a registration.
Cached(client, kind) ==
    CASE kind = "cursor_move" -> client.cursor_position
      [] kind = "selection_update" -> client.selection
      [] kind = "presence_update" -> {client.status}

\* C15: after a cursor_move, selection_update or presence_update naming a
\* client c registered in the document's session, the session's cached
\* cursor, selection or status of c is the value sent and every other
\* client's cached state is as it was; the cached state of a registered
\* client changes in no other way than by such a frame or a join under its
\* id, and the connected_clients of a JoinAck are the cached states of the
\* clients registered when it is made, so that a later JoinAck reports the
\* latest value.
C15_CachedStateFollowsUpdates ==
    [][/\ \A k \in Conns :
            /\ (Leaves(k, "update_lock") /\ sess[session[k]].clients[cur[k].client_id] # {}) =>
                  LET c == cur[k].client_id
                      before == sess[session[k]]
                      after == sess'[session[k]]
                  IN  /\ after.clients[c] # {}
                      /\ Cached(The(after.clients[c]), cur[k].type) = {cur[k].payload.body.value}
                      /\ \A kind \in {"cursor_move", "selection_update", "presence_update"} \ {cur[k].type} :
                            Cached(The(after.clients[c]), kind) = Cached(The(before.clients[c]), kind)
                      /\ \A x \in ClientIds \ {c} : after.clients[x] = before.clients[x]
            /\ Leaves(k, "join_add") =>
                  LET s == sess[session[k]]
                      m == chan'[k][Len(chan'[k])]
                  IN  /\ m.type = "join_ack"
                      /\ \A x \in ClientIds : s.clients[x] # {} =>
                            \E info \in m.connected_clients :
                                /\ info.client_id = x
                                /\ info.cursor_position = The(s.clients[x]).cursor_position
                                /\ info.selection = The(s.clients[x]).selection
                                /\ info.status = The(s.clients[x]).status
       /\ \A i \in SessIds, c \in ClientIds :
            (sess[i].clients[c] # {} /\ sess'[i].clients[c] # {}
                /\ sess'[i].clients[c] # sess[i].clients[c]) =>
                \E k \in Conns : /\ session[k] = i
                                 /\ cur[k].client_id = c
                                 /\ pc[k] \in {"update_lock", "join_add"}
    ]_vars

\* A connection that joined after another client's cursor_move has a JoinAck
\* that lists that client with the position it sent.
C15_Witness ==
    \E k \in Conns : \E i \in 1..Len(chan[k]) :
        /\ chan[k][i].type = "join_ack"
        /\ \E info \in chan[k][i].connected_clients :
              /\ info.client_id # chan[k][i].client_id
              /\ info.cursor_position = {"p1"}

C17_PropagateCleans ==
    [][scene_call'.op = "update_transforms" =>
        \A id \in ObjectIds : nodes'[id] # {} =>
            LET node == The(nodes'[id])
            IN  /\ ~node.dirty
                /\ node.parent = {} => node.world_transform = node.local_transform
                /\ (node.parent # {} /\ nodes'[The(node.parent)] # {}) =>
                      node.world_transform =
                          multiply(The(nodes'[The(node.parent)]).world_transform,
                                   node.local_transform)
    ]_vars

\* C18: a reparent_preserve_world(c, p') call leaves the world transform of
\* c as it was, whatever the dirty or propagated state of the scene.
C18_ReparentPreservesWorld ==
    [][hier_call'.op = "reparent_preserve_world" =>
        The(world'[hier_call'.child]).transform.world
            = The(world[hier_call'.child]).transform.world
    ]_vars

\* How often child is in the child list of e.
TimesIn(w, e, child) ==
    Cardinality({i \in 1..Len(get_children(w, e)) : get_children(w, e)[i] = child})
\* The entities below e, e among them when a child list leads back to it.
DescendantsOf(w, e) == Below(w, ChildSet(w, e))

\* C19: set_parent(child, parent) leaves child out of its previous parent's
\* child list and once in the new parent's, in no other child list, and
\* leaves child and every descendant of child dirty.
C19_SetParentRelinks ==
    [][hier_call'.op = "set_parent" =>
        LET child == hier_call'.child
            parent == The(hier_call'.parent)
        IN  /\ \A e \in Entities :
                  TimesIn(world', e, child) = IF e = parent THEN 1 ELSE 0
            /\ \A e \in {child} \cup DescendantsOf(world', child) : The(world'[e]).dirty
    ]_vars

\* Following parent links from e ends at an entity without parent within n
\* steps.
RECURSIVE ReachesRoot(_, _, _)
ReachesRoot(w, e, n) ==
    IF get_parent(w, e) = {} THEN TRUE
    ELSE IF n = 0 THEN FALSE
    ELSE ReachesRoot(w, The(get_parent(w, e)), n - 1)
Forest(w) == \A e \in Entities : ReachesRoot(w, e, Cardinality(Entities))
\* The call gives an entity itself, or an entity below it, as parent.
ParentBelowChild(w, call) ==
    /\ call.op \in {"set_parent", "reparent_preserve_world"}
    /\ \E p \in call.parent :
          \/ p = call.child
          \/ \E i \in 1..Len(get_ancestors(w, p)) : get_ancestors(w, p)[i] = call.child

\* C20, as stated: after any sequence of set_parent, remove_parent and
\* reparent_preserve_world calls the parent links form a forest (following
\* them from any entity reaches an entity without parent; no entity is its
\* own ancestor).
C20_ParentLinksFormForest == Forest(world)

\* C20, amended: a set_parent, remove_parent or reparent_preserve_world call
\* that does not give an entity itself or one of its descendants as parent
\* keeps a forest a forest.
C20_ForestKeptByCheckedCalls ==
    [][(Forest(world) /\ ~ParentBelowChild(world, hier_call')) => Forest(world')]_vars

\* A set_parent call has put an entity under an entity that has a parent
\* itself, in a forest.
C20_Witness ==
    /\ hier_call.op = "set_parent"
    /\ Forest(world)
    /\ Len(get_ancestors(world, hier_call.child)) = 2

\* C23: for z-indices b < a, the index m that utils'
\* generate_z_index_between(Some(b), Some(a)) returns lies strictly between
\* them: b < m < a (so m is neither bound).
C23_BetweenIsBetween ==
    \A r \in z_index :
        (r.by = "utils" /\ z_before # {} /\ z_after # {}
           /\ StrLess(The(z_before), The(z_after)))
        => /\ StrLess(The(z_before), r.index)
           /\ StrLess(r.index, The(z_after))

\* C24: the index returned for inserting before a non-empty index a
\* (generate_z_index_between(None, Some(a)), in the crate and in the
\* contract) is strictly less than a.
C24_BeforeIsLess ==
    \A r \in z_index :
        (z_before = {} /\ z_after # {}) => StrLess(r.index, The(z_after))

\* The ids a sequence holds.
Range(seq) == {seq[i] : i \in DOMAIN seq}

\* C25: after any sequence of add_object and remove_object calls, every id
\* in page_objects[p] for some page p, and every id in the children of a
\* group object, is a key of objects.
C25_ListedIdsAreObjects ==
    /\ \A p \in DOMAIN canvas.page_objects :
           Range(canvas.page_objects[p]) \subseteq DOMAIN canvas.objects
    /\ \A o \in DOMAIN canvas.objects :
           Range(canvas.objects[o].children) \subseteq DOMAIN canvas.objects

\* C26: after any sequence of add_object and remove_object calls, every
\* object in objects has a page_id that is in pages, and its id is in
\* page_objects[page_id].
C26_ObjectsAreOnTheirPage ==
    \A o \in DOMAIN canvas.objects :
        LET page_id == canvas.objects[o].base.page_id
        IN  /\ page_id \in Range(canvas.pages)
            /\ page_id \in DOMAIN canvas.page_objects
            /\ o \in Range(canvas.page_objects[page_id])

\* The place of an id in a sequence of distinct ids.
PlaceIn(seq, id) == CHOOSE i \in 1..Len(seq) : seq[i] = id

\* C21: get_render_order returns exactly the visible nodes, each once, in
\* non-decreasing z_index order, nodes of equal z_index in the order they
\* were inserted; a second call on the unchanged scene returns the same.
C21_RenderOrderIsStable ==
    \A r \in render_order :
        /\ Range(r) = {id \in ObjectIds : nodes[id] # {} /\ The(nodes[id]).visible}
        /\ \A i, j \in 1..Len(r) : i < j =>
              /\ r[i] # r[j]
              /\ ~StrLess(The(nodes[r[j]]).z_index, The(nodes[r[i]]).z_index)
              /\ The(nodes[r[i]]).z_index = The(nodes[r[j]]).z_index
                    => PlaceIn(inserted, r[i]) < PlaceIn(inserted, r[j])
        /\ r = get_render_order(nodes, slots)

\* An object is locked when the entity spawned for it carries the lock (a
\* SceneNode has no field for it).
Locked(id) ==
    \E e \in Entities : /\ world[e] # {}
                        /\ The(world[e]).id = id
                        /\ The(world[e]).visibility.locked
\* The nodes a hit test may return: visible, unlocked, their world bounds
\* holding the point. The nodes of the store are its renderable entities.
SceneCandidates(point) ==
    {id \in ObjectIds : /\ nodes[id] # {}
                        /\ The(nodes[id]).visible
                        /\ ~Locked(id)
                        /\ bounds_contains(The(nodes[id]).world_bounds, point)}
WorldCandidates(x) ==
    {e \in Entities : /\ world[e] # {}
                      /\ The(world[e]).renderable
                      /\ The(world[e]).visibility.visible
                      /\ ~The(world[e]).visibility.locked
                      /\ \E box \in The(world[e]).world_bounds : bounds_contains(box, x)}

\* What C22 asks of SceneGraph::hit_test.
SceneHitIsTopmost ==
    hit.by = "scene" =>
          /\ hit.found = {} <=> SceneCandidates(hit.point) = {}
          /\ \A id \in hit.found :
                /\ id \in SceneCandidates(hit.point)
                /\ \A o \in SceneCandidates(hit.point) :
                      ~StrLess(The(nodes[id]).z_index, The(nodes[o]).z_index)
\* What C22 asks of the store's hit_test.
StoreHitIsTopmost ==
    hit.by = "world" =>
          /\ hit.found = {} <=> WorldCandidates(hit.point) = {}
          /\ \A e \in hit.found :
                /\ e \in WorldCandidates(hit.point)
                /\ \A o \in WorldCandidates(hit.point) :
                      ~StrLess(The(world[e]).z_index, The(world[o]).z_index)

\* C22: hit_test(point) returns a visible, unlocked node whose world bounds
\* hold the point and that no other such node exceeds in z_index; it returns
\* none exactly when there is no such node.
C22_HitIsTopmost == SceneHitIsTopmost /\ StoreHitIsTopmost

\* C30: after any sequence of zoom_to, zoom_by, pan_by and set_camera calls
\* the zoom lies in [0.01, 256]; a requested zoom below 0.01 yields exactly
\* 0.01 and one above 256 yields exactly 256.
C30_ZoomIsClamped ==
    /\ MIN_ZOOM <= camera.zoom /\ camera.zoom <= MAX_ZOOM
    /\ camera_call.op \in {"zoom_to", "zoom_by", "set_camera"} =>
          /\ camera_call.zoom < MIN_ZOOM => camera.zoom = MIN_ZOOM
          /\ camera_call.zoom > MAX_ZOOM => camera.zoom = MAX_ZOOM

\* C27: handle_event returns true exactly when handling the event changed
\* the tool state, the selection or the camera.
C27_ConsumedIffChanged ==
    [][(tool_calls' = tool_calls + 1 /\ tool_call'.op = "handle_event") =>
          (tool_call'.consumed <=>
              (\/ tool_manager'.state # tool_manager.state
               \/ selection' # selection
               \/ camera' # camera))]_vars

\* The objects of the scene and of the document.
SceneObjects == {id \in ObjectIds : nodes[id] # {}}
DocumentObjects == DOMAIN canvas.objects

\* C28: with a draw tool active, PointerDown(button 0), PointerMove,
\* PointerUp creates one new object in the document or the scene, and leaves
\* the tool state cleared.
C28_DrawCreatesObject ==
    [][(/\ tool_calls' = tool_calls + 1
        /\ tool_call'.op = "handle_event"
        /\ tool_manager.current_tool \in DrawTools
        /\ events' = <<[type |-> "PointerDown", button |-> 0],
                       [type |-> "PointerMove", button |-> 0],
                       [type |-> "PointerUp", button |-> 0]>>)
       => /\ tool_manager'.state = ToolStateDefault
          /\ \/ Cardinality(SceneObjects') = Cardinality(SceneObjects) + 1
             \/ Cardinality(DocumentObjects') = Cardinality(DocumentObjects) + 1]_vars

\* C29: after set_tool(t), whatever the tool and the tool state before (a
\* drag under way, t the tool already active), the tool state is the
\* initial one, and a PointerMove that follows is not taken as a drag: it
\* is not consumed and leaves the state as it is.
C29_SetToolResets ==
    (tool_call.op = "set_tool" /\ events = << >>) =>
        /\ tool_manager.current_tool = tool_call.tool
        /\ tool_manager.state = ToolStateDefault
        /\ ~tool_manager.state.is_dragging
        /\ \A p \in Places :
              LET r == handle_event(tool_manager, PointerMove(p.canvas, p.screen),
                                    camera, nodes, slots, selection)
              IN  ~r.consumed /\ r.tools = tool_manager /\ r.camera = camera

\* set_tool was called in the middle of a drag that had moved, once for
\* another tool and once for the tool already active.
C29_Witness ==
    /\ tool_call.op = "set_tool"
    /\ events = << >>
    /\ tool_call.before.state.is_dragging
    /\ tool_call.before.state.drag_start # {}
    /\ tool_call.before.current_tool = tool_call.tool
    /\ tool_call.tool = "Pan"

\* C39: after any sequence of input events and set_tool calls, is_dragging
\* is true exactly when drag_start is present, and drag_current is present
\* only while is_dragging is true.
C39_DragFieldsAgree ==
    /\ tool_manager.state.is_dragging <=> tool_manager.state.drag_start # {}
    /\ tool_manager.state.drag_current # {} => tool_manager.state.is_dragging

\* A drag of a draw tool has moved, and a drag has ended.
C39_Witness ==
    /\ tool_manager.current_tool \in DrawTools
    /\ \/ /\ tool_manager.state.is_dragging
          /\ tool_manager.state.drag_current # {}
          /\ Len(events) >= 2
       \/ /\ ~tool_manager.state.is_dragging
          /\ Len(events) >= 3
          /\ events[Len(events)].type = "PointerUp"
          /\ events[Len(events) - 1].type = "PointerMove"

\* The nodes stored, and the nodes below a node along the children lists.
Stored(ns) == {id \in ObjectIds : ns[id] # {}}
ListedBelow(ns, id) ==
    LET step(S) == S \cup UNION {Range(The(ns[k]).children) : k \in S \cap Stored(ns)}
    IN  step(step(step({id}))) \ {id}
\* The ids the root list and the children lists hold.
Referenced(ns, rs) == Range(rs) \cup UNION {Range(The(ns[k]).children) : k \in Stored(ns)}

\* The places a sequence holds an id at.
CountIn(seq, id) == Cardinality({i \in DOMAIN seq : seq[i] = id})

\* What C38 asks of every state.
GraphIsLinked ==
    /\ Referenced(nodes, roots) \subseteq Stored(nodes)
    /\ \A id \in ObjectIds :
          CountIn(roots, id)
            + Cardinality({k \in Stored(nodes) : id \in Range(The(nodes[k]).children)})
            <= 1
    /\ \A k \in Stored(nodes) : \A id \in ObjectIds : CountIn(The(nodes[k]).children, id) <= 1
    /\ \A id \in Stored(nodes) :
          IF The(nodes[id]).parent = {}
          THEN id \in Range(roots)
          ELSE \E p \in The(nodes[id]).parent :
                  nodes[p] # {} /\ id \in Range(The(nodes[p]).children)

\* C38: after any sequence of add_node and remove_node calls, every id in
\* roots or in a children list is a key of nodes and is listed at most
\* once, every stored node is in roots (no parent) or in its parent's
\* children, and after remove_node(id) neither id nor one of its
\* descendants is stored or referenced.
C38_GraphStaysLinked ==
    /\ []GraphIsLinked
    /\ [][(scene_calls' = scene_calls + 1 /\ scene_call'.op = "remove_node") =>
             \A gone \in {scene_call'.id} \cup ListedBelow(nodes, scene_call'.id) :
                 (gone = scene_call'.id \/ nodes[scene_call'.id] # {}) =>
                    /\ gone \notin Stored(nodes')
                    /\ gone \notin Referenced(nodes', roots')]_vars

\* The version a JoinAck or a ChangeBroadcast for document d carries when it
\* is composed from the replica as it stands: the number of heads.
VersionAt(docs, d) == Cardinality(HeadsAt(docs, d))

\* C37: the version carried by successive JoinAck and ChangeBroadcast
\* messages of a document never decreases as further changes are applied:
\* the version the ChangeBroadcast of an applied change carries is no less
\* than the version a message composed just before the change was applied
\* carries, and applying a change never lowers the version the next
\* JoinAck will carry.
C37_VersionNeverDecreases ==
    [][\A k \in Conns : (Leaves(k, "change_apply") /\ pc'[k] = "change_get") =>
        LET d == cur[k].document_id
        IN  /\ The(saved'[k]).version >= VersionAt(documents, d)
            /\ VersionAt(documents', d) >= VersionAt(documents, d)
    ]_vars

\* C34: a change applied to a document while a join of the same document is
\* under way is missed by neither the joiner's JoinAck nor its channel: when
\* the handler of a change ends while a joiner holds a snapshot that was
\* taken without the change (its JoinAck is still to be sent), a
\* ChangeBroadcast for the change has been placed on the joiner's channel.
C34_JoinMissesNoChange ==
    [][\A k, j \in Conns :
        (/\ k # j
         /\ pc[k] \in {"change_get", "change_bcast"} /\ pc'[k] = "idle"
         /\ pc[j] = "join_add"
         /\ cur[j].document_id = cur[k].document_id
         /\ B64Decode(cur[k].payload).id \in The(documents[cur[k].document_id]).applied
         /\ B64Decode(cur[k].payload).id \notin The(saved[j]).doc_bytes.changes)
        => /\ Len(chan'[j]) = Len(chan[j]) + 1
           /\ LET m == chan'[j][Len(chan'[j])]
              IN  /\ m.type = "change_broadcast"
                  /\ m.document_id = cur[k].document_id
                  /\ m.change = cur[k].payload
    ]_vars

\* C33: when a LeaveDocument that empties a session runs alongside a
\* JoinDocument of the same document, remove_session never discards a
\* session that has a registered client, and a join that returns when no
\* other handler is running leaves its client registered in the session
\* the SessionManager maps to the document.
C33_RemoveSessionSparesJoined ==
    [][\A k \in Conns :
        LET d == cur[k].document_id
        IN  /\ (Leaves(k, "leave_rm") /\ sessions[d] # NoSession) =>
                  is_empty(sess[sessions[d]])
            /\ (/\ pc[k] \in {"join_info", "join_bcast"} /\ pc'[k] = "idle"
                /\ \A j \in Conns \ {k} : pc[j] = "idle") =>
                  /\ sessions'[d] # NoSession
                  /\ sess'[sessions'[d]].clients[cur[k].client_id] # {}
    ]_vars

\* Connection j's socket is open: its reader loop has not ended.
StillOpen(j) == pc[j] \notin {"closed", "disc", "panicked"} /\ cur[j].type # "close"

\* C36: the cleanup that follows the close of connection k removes no
\* registration and no sync state made by another connection whose socket
\* is still open, whatever client ids and documents the two have used.
C36_CleanupSparesOthers ==
    [][\A k \in Conns : (cur[k].type = "close" /\ Leaves(k, "leave_lock")) =>
        /\ \A r \in sess[session[k]].clients[cur[k].client_id] :
              (r.session_token # k /\ StillOpen(r.session_token)) =>
                  r \in sess'[session[k]].clients[cur[k].client_id]
        /\ \A j \in Conns \ {k}, d \in Docs :
              StillOpen(j) => SyncStateAt(documents', d, j) = SyncStateAt(documents, d, j)
    ]_vars

\* Task t holds, or waits for, the lock of some session.
HoldsSession(t) == \E i \in SessIds : holds(locks.session[i], t)
AwaitsSession(t) == \E i \in SessIds : awaits(locks.session[i], t)
\* The critical sections that place a broadcast.
Broadcasts == {"join_bcast", "leave_bcast", "change_bcast", "update_bcast"}

\* C31: no task holds the lock of the SessionManager's sessions map while
\* it waits for the lock of a session, and no task holds the lock of a
\* session at the step in which it places a broadcast.
C31_LocksAreNotNested ==
    [][\A t \in LockTasks :
        /\ ~(holds(locks.sessions, t) /\ AwaitsSession(t))
        /\ (t \in Conns /\ At(t, task_pc[t]) /\ task_pc[t] \in Broadcasts /\ task_pc'[t] # task_pc[t])
              => ~HoldsSession(t)
    ]_vars

\* C35: join, leave, change, sync, presence, disconnect and stats tasks
\* running side by side never deadlock: every task that waits for a lock
\* gets it, and every handler that has started returns.
C35_NoDeadlock ==
    \A t \in LockTasks :
        /\ task_waits[t] ~> ~task_waits[t]
        /\ (task_pc[t] \notin {"idle", "closed"}) ~> (task_pc[t] \in {"idle", "closed"})

\* A stats request holds the map's lock and waits for a session's lock,
\* which a leave holds together with the lock of the document store.
C35_Witness ==
    \E k \in Conns :
        /\ holds(locks.sessions, Stats) /\ AwaitsSession(Stats) /\ task_waits[Stats]
        /\ HoldsSession(k) /\ holds(locks.documents, k) /\ task_pc[k] = "leave_documents"

\* The entities spawn_object has made for a visible Rectangle, Ellipse or
\* Line.
VisibleShapes ==
    {e \in Entities :
        /\ world[e] # {} /\ The(world[e]).visibility.visible
        /\ shape_type[e] # {} /\ The(shape_type[e]).type \in {"Rectangle", "Ellipse", "Line"}}
\* A sequence of entities runs in ascending z-index order.
Ascending(seq) ==
    \A i, j \in 1..Len(seq) :
        i < j => ~StrLess(The(world[seq[j]]).z_index, The(world[seq[i]]).z_index)

\* C32: every visible entity spawn_object made for a Rectangle, Ellipse or
\* Line is tessellated in the next frame, counted in objects_rendered and
\* listed by get_render_order, and both run in ascending z-index order.
C32_SpawnedShapesAreRendered ==
    render_pc = "built" =>
        /\ \A e \in VisibleShapes :
              /\ \E i \in 1..Len(geometry.shapes) :
                    geometry.shapes[i].entity = e /\ geometry.shapes[i].count > 0
              /\ \E i \in 1..Len(listed) : listed[i] = e
        /\ geometry.objects_rendered = Cardinality(VisibleShapes)
        /\ Ascending([i \in 1..Len(geometry.shapes) |-> geometry.shapes[i].entity])
        /\ Ascending(listed)

\* C40: every index build_geometry writes for a shape is the place of one
\* of that shape's own vertices in the vertex list: the shape's 16-bit
\* base_vertex is the true place of its first vertex, and no index has
\* wrapped around 2^16.
C40_IndicesStayInShape ==
    \A i \in 1..Len(geometry.shapes) :
        LET shape == geometry.shapes[i]
        IN  /\ shape.base_vertex = shape.first
            /\ \A j \in 1..Len(shape.indices) :
                  shape.indices[j] \in shape.first..(shape.first + shape.count - 1)
====
